---- MODULE Spec2Model ----
(***************************************************************************)
(* A model of RusDooM: the WAD container loader (wad.rs, map.rs, font.rs,  *)
(* palette.rs, graphics.rs), the BSP visibility walk and the field-of-view *)
(* test (level.rs, map_items.rs, angle.rs).                                *)
(*                                                                         *)
(* Lump names are sequences of byte values, as in the 8-byte directory     *)
(* field.  A lump's bytes are modelled by a record holding the length and  *)
(* the decoded views the code reads from them (vertices, the leading count,*)
(* the outcome of the patch-format scan).                                  *)
(***************************************************************************)
EXTENDS Integers, Sequences, FiniteSets, TLC

VARIABLES
    file,                   \* the file read by WadData::load: [len, magic, lump_count, dir_offset]
    is_iwad,                \* the expected-kind flag passed to WadData::load
    pc,                     \* position of the running operation
    lump_idx,               \* parse_wad_lumps: loop counter
    is_flats,               \* parse_wad_lumps: inside F_START .. F_END
    currently_parsing_map,  \* parse_wad_lumps: Option<MapData>
    wad,                    \* the WadData under construction (NoWad when there is none)
    result,                 \* what load returned (NoResult while running)
    lump,                   \* the directory entry read by the current/last loop iteration
    player,                 \* ActiveLevel.player: [pos, angle]
    hfov,                   \* GameConfig.hfov, the half field of view
    map_data,               \* ActiveLevel.map_data: [nodes, ssectors, segs, vertexes]
    seg,                    \* is_seg_in_player_fov: the segment passed in
    seg_in_fov,             \* is_seg_in_player_fov: what it returned
    qpc,                    \* player_visible_segments: position of the query
    stack,                  \* render_node: the calls still to make, innermost first
    seg_collector,          \* player_visible_segments: sect_collector
    visited,                \* the references render_node was entered with, in order
    qresult,                \* what player_visible_segments returned
    seen_lines,             \* ActiveLevel.seen_lines: the linedef indices whose bit is set
    query_no,               \* the number of the running visibility query
    prev_segs,              \* what the query before the running one returned
    node,                   \* child_indices_based_on_point_pos: self
    point,                  \* child_indices_based_on_point_pos: the point passed in
    kids,                   \* child_indices_based_on_point_pos: what it returned
    md,                     \* the MapData that add_lump is called on; the ActiveLevel of the automap calls
    accepted,               \* the bytes of the VERTEXES lump that add_lump took last
    game,                   \* the DoomGame: [key_flags, map_idx, level]
    call,                   \* the function called and its arguments
    ret                     \* what the call returned

wadVars == <<file, is_iwad, pc, lump_idx, is_flats, currently_parsing_map, wad, result, lump>>

viewVars == <<player, hfov>>
fovVars == <<seg, seg_in_fov>>
paintVars == <<seen_lines, query_no, prev_segs>>
bspVars == <<map_data, qpc, stack, seg_collector, visited, qresult, paintVars>>
sideVars == <<node, point, kids>>
levelVars == <<viewVars, fovVars, bspVars, sideVars>>

storeVars == <<md, accepted, game>>
callVars == <<call, ret>>
unitVars == <<storeVars, callVars>>

vars == <<wadVars, levelVars, unitVars>>

\* the value of a variable the running operation does not have
Unused == <<>>

NoLoad ==
    /\ file = Unused /\ is_iwad = Unused /\ pc = Unused /\ lump_idx = Unused
    /\ is_flats = Unused /\ currently_parsing_map = Unused /\ wad = Unused
    /\ result = Unused /\ lump = Unused

NoView == player = Unused /\ hfov = Unused

NoFovTest == seg = Unused /\ seg_in_fov = Unused

NoQuery ==
    /\ map_data = Unused /\ qpc = Unused /\ stack = Unused
    /\ seg_collector = Unused /\ visited = Unused /\ qresult = Unused
    /\ seen_lines = Unused /\ query_no = Unused /\ prev_segs = Unused

NoSideTest == node = Unused /\ point = Unused /\ kids = Unused

NoStore == md = Unused /\ accepted = Unused /\ game = Unused

NoCall == call = Unused /\ ret = Unused

NoLevel == NoView /\ NoFovTest /\ NoQuery /\ NoSideTest

-----------------------------------------------------------------------------
(* Bounds of the model *)

\* the longest directory a modelled file declares
MaxLumps == 23
\* how many slots below the highest filled one a level under construction may lack
MaxSkipped == 1
\* font.rs:60 requires glyphs 0..=57; the model scales the required range to 0..MaxRequiredGlyph
MaxRequiredGlyph == 1
\* length of the modelled full-size files
BigLen == 2048
\* the longest directory whose lumps are arbitrary
ShortDir == 3

-----------------------------------------------------------------------------
(* Program constants *)

IDX_THINGS == 0
IDX_LINEDEFS == 1
IDX_SIDEDEFS == 2
IDX_VERTEXES == 3
IDX_SEGS == 4
IDX_SSECTORS == 5
IDX_NODES == 6
IDX_SECTORS == 7
IDX_REJECT == 8
IDX_BLOCKMAP == 9
LUMP_CNT == 10
USIZE_MAX == 99

VERTEX_SIZE == 4
DIR_ENTRY_SIZE == 16
MIN_WAD_LEN == 16
HEADER_SIZE == 12
PALETTE_SIZE == 768
COLORMAP_SIZE == 256
FONT_SLOTS == 64
NO_CODE == 9999

-----------------------------------------------------------------------------
(* Lump names, as bytes *)

N_E1M1 == <<69, 49, 77, 49>>
N_MAP01 == <<77, 65, 80, 48, 49>>
N_THINGS == <<84, 72, 73, 78, 71, 83>>
N_LINEDEFS == <<76, 73, 78, 69, 68, 69, 70, 83>>
N_SIDEDEFS == <<83, 73, 68, 69, 68, 69, 70, 83>>
N_VERTEXES == <<86, 69, 82, 84, 69, 88, 69, 83>>
N_SEGS == <<83, 69, 71, 83>>
N_SSECTORS == <<83, 83, 69, 67, 84, 79, 82, 83>>
N_NODES == <<78, 79, 68, 69, 83>>
N_SECTORS == <<83, 69, 67, 84, 79, 82, 83>>
N_REJECT == <<82, 69, 74, 69, 67, 84>>
N_BLOCKMAP == <<66, 76, 79, 67, 75, 77, 65, 80>>
N_PLAYPAL == <<80, 76, 65, 89, 80, 65, 76>>
N_COLORMAP == <<67, 79, 76, 79, 82, 77, 65, 80>>
N_PNAMES == <<80, 78, 65, 77, 69, 83>>
N_F_START == <<70, 95, 83, 84, 65, 82, 84>>
N_F_END == <<70, 95, 69, 78, 68>>
N_TEXTURE == <<84, 69, 88, 84, 85, 82, 69>>
N_STCFN == <<83, 84, 67, 70, 78>>
N_FONTA == <<70, 79, 78, 84, 65>>
N_DEMO1 == <<68, 69, 77, 79, 49>>
N_IWAD == <<73, 87, 65, 68>>
N_PWAD == <<80, 87, 65, 68>>

\* the 8-byte directory field holding a name: NUL padded
Pad8(n) == n \o [i \in 1..(8 - Len(n)) |-> 0]

-----------------------------------------------------------------------------
(* Values *)

NoMap == [none |-> TRUE]
NoWad == [none |-> TRUE]
NoResult == [kind |-> "running"]
NoLump == [idx |-> -1, field |-> <<>>, start |-> 0, size |-> 0]

Vertex(x, y) == [x |-> x, y |-> y]

\* Bytes: the length, and the views the code decodes from the content
\*   verts:   the whole vertex records of a VERTEXES lump
\*   graphic: whether the column offsets and posts scan as a patch
\*   cnt:     the leading u32 of a PNAMES or TEXTUREx lump
\*   tex:     the texture entries of a TEXTUREx lump: [offs, patch_count, key]
Bytes(len, verts, graphic, cnt, tex) ==
    [len |-> len, verts |-> verts, graphic |-> graphic, cnt |-> cnt, tex |-> tex]

EmptyBytes == Bytes(0, <<>>, FALSE, 0, <<>>)

Ok == [kind |-> "Ok"]
Panic(what) == [kind |-> "Panic", what |-> what]
Err(what, detail) == [kind |-> "Err", what |-> what, detail |-> detail]

-----------------------------------------------------------------------------
(* utils.rs *)

\* checked_slice: assert!(end <= buf.len()); TRUE when the assertion holds
CheckedSliceOk(len, idx, item_size) == idx * item_size + item_size <= len

IsAsciiDigit(byte) == byte >= 48 /\ byte <= 57

RECURSIVE AtoiFrom(_, _, _)
AtoiFrom(s, i, num) ==
    IF i > Len(s) THEN num
    ELSE IF s[i] < 48 \/ s[i] > 57 THEN -1
    ELSE AtoiFrom(s, i + 1, num * 10 + s[i] - 48)

\* atoi: Some(num), or None (-1) at the first non-digit
Atoi(s) == AtoiFrom(s, 1, 0)

\* hash_lump_name: lower case folded to upper case, cut at the first NUL; the
\* key is the base-256 number of these bytes, kept here as the byte string
RECURSIVE HashFrom(_, _, _)
HashFrom(name, i, key) ==
    IF i > Len(name) THEN key
    ELSE IF name[i] = 0 THEN key
    ELSE HashFrom(name, i + 1,
                  Append(key, IF name[i] >= 97 /\ name[i] <= 122 THEN name[i] - 32 ELSE name[i]))

HashLumpName(name) == HashFrom(name, 1, <<>>)

-----------------------------------------------------------------------------
(* wad.rs: internal utils *)

RECURSIVE ExtractFrom(_, _)
ExtractFrom(name_bytes, i) ==
    IF i > Len(name_bytes) THEN [ok |-> TRUE, name |-> name_bytes]
    ELSE IF name_bytes[i] = 0 THEN [ok |-> TRUE, name |-> SubSeq(name_bytes, 1, i - 1)]
    ELSE IF name_bytes[i] <= 32 \/ name_bytes[i] >= 127 THEN [ok |-> FALSE, name |-> <<>>]
    ELSE ExtractFrom(name_bytes, i + 1)

ExtractLumpName(name_bytes) == ExtractFrom(name_bytes, 1)

\* mutant: the last character is not looked at
IsMapName_LastUnchecked(b) ==
    IF Len(b) = 4
    THEN b[1] = 69 /\ IsAsciiDigit(b[2]) /\ b[3] = 77
    ELSE IF Len(b) = 5
    THEN b[1] = 77 /\ b[2] = 65 /\ b[3] = 80 /\ IsAsciiDigit(b[4])
    ELSE FALSE

IsMapName(b) ==
    IF Len(b) = 4
    THEN b[1] = 69 /\ IsAsciiDigit(b[2]) /\ b[3] = 77 /\ IsAsciiDigit(b[4])
    ELSE IF Len(b) = 5
    THEN b[1] = 77 /\ b[2] = 65 /\ b[3] = 80 /\ IsAsciiDigit(b[4]) /\ IsAsciiDigit(b[5])
    ELSE FALSE

IsTextureName(name) ==
    Len(name) = 8 /\ SubSeq(name, 1, 7) = N_TEXTURE /\ IsAsciiDigit(name[8])

IsFontName(name) ==
    Len(name) >= 7 /\ (SubSeq(name, 1, 5) = N_STCFN \/ SubSeq(name, 1, 5) = N_FONTA)

\* quick_check_if_lump_is_graphic: the scan of the column offsets and posts is
\* the content's `graphic` view; a lump shorter than 12 bytes is never a graphic
QuickCheckIfLumpIsGraphic(bytes) == bytes.len >= 12 /\ bytes.graphic

-----------------------------------------------------------------------------
(* map.rs: MapData *)

MapDataNew(name) ==
    [name |-> name,
     lumps |-> [i \in 0..(LUMP_CNT - 1) |-> EmptyBytes],
     bound_min |-> Vertex(0, 0),
     bound_max |-> Vertex(0, 0)]

\* mutant: the last slot is not looked at
IsComplete_AllButLast(map) == \A i \in 0..(LUMP_CNT - 2) : map.lumps[i].len > 0

IsComplete(map) == \A i \in 0..(LUMP_CNT - 1) : map.lumps[i].len > 0

VertexCount(map) == map.lumps[IDX_VERTEXES].len \div VERTEX_SIZE

MinOf(a, b) == IF a <= b THEN a ELSE b
MaxOf(a, b) == IF a >= b THEN a ELSE b

\* mutant: the last vertex is not looked at
RECURSIVE BoundsFrom_SkipLast(_, _, _, _, _)
BoundsFrom_SkipLast(verts, i, n, bl, tr) ==
    IF i >= n - 1 THEN [bl |-> bl, tr |-> tr]
    ELSE LET v == verts[i + 1] IN
         BoundsFrom_SkipLast(verts, i + 1, n,
                             Vertex(MinOf(bl.x, v.x), MinOf(bl.y, v.y)),
                             Vertex(MaxOf(tr.x, v.x), MaxOf(tr.y, v.y)))

RECURSIVE BoundsFrom(_, _, _, _, _)
BoundsFrom(verts, i, n, bl, tr) ==
    IF i >= n THEN [bl |-> bl, tr |-> tr]
    ELSE LET v == verts[i + 1] IN
         BoundsFrom(verts, i + 1, n,
                    Vertex(MinOf(bl.x, v.x), MinOf(bl.y, v.y)),
                    Vertex(MaxOf(tr.x, v.x), MaxOf(tr.y, v.y)))

\* compute_map_bounds: vertex(0) asserts that one whole record exists
ComputeMapBounds(map) ==
    IF ~CheckedSliceOk(map.lumps[IDX_VERTEXES].len, 0, VERTEX_SIZE)
    THEN [panicked |-> TRUE, map |-> map]
    ELSE LET verts == map.lumps[IDX_VERTEXES].verts
             b == BoundsFrom(verts, 1, VertexCount(map), verts[1], verts[1])
         IN [panicked |-> FALSE,
             map |-> [map EXCEPT !.bound_min = b.bl, !.bound_max = b.tr]]

LumpIndex(lump_name) ==
    CASE lump_name = N_VERTEXES -> IDX_VERTEXES
      [] lump_name = N_LINEDEFS -> IDX_LINEDEFS
      [] lump_name = N_THINGS -> IDX_THINGS
      [] lump_name = N_SIDEDEFS -> IDX_SIDEDEFS
      [] lump_name = N_SEGS -> IDX_SEGS
      [] lump_name = N_SSECTORS -> IDX_SSECTORS
      [] lump_name = N_NODES -> IDX_NODES
      [] lump_name = N_SECTORS -> IDX_SECTORS
      [] lump_name = N_REJECT -> IDX_REJECT
      [] lump_name = N_BLOCKMAP -> IDX_BLOCKMAP
      [] OTHER -> USIZE_MAX

\* add_lump: [map, still_parsing, panicked]
AddLump(map, lump_name, bytes) ==
    LET idx == LumpIndex(lump_name) IN
    IF idx < LUMP_CNT
    THEN LET m1 == [map EXCEPT !.lumps[idx] = bytes] IN
         IF idx = IDX_VERTEXES
         THEN LET r == ComputeMapBounds(m1) IN
              [map |-> r.map, still_parsing |-> TRUE, panicked |-> r.panicked]
         ELSE [map |-> m1, still_parsing |-> TRUE, panicked |-> FALSE]
    ELSE [map |-> map, still_parsing |-> FALSE, panicked |-> FALSE]

-----------------------------------------------------------------------------
(* palette.rs, font.rs, graphics.rs *)

PaletteNew == [pal_cnt |-> 0, cmap_cnt |-> 0]

InitPalettes(pal, bytes) == [pal EXCEPT !.pal_cnt = bytes.len \div PALETTE_SIZE]

InitColormaps(pal, bytes) == [pal EXCEPT !.cmap_cnt = bytes.len \div COLORMAP_SIZE]

PaletteIsInitialized(pal) == pal.pal_cnt > 0 /\ pal.cmap_cnt > 0

\* Font: the set of glyph indices holding a non-empty pixmap
FontNew == {}

\* compute_grayscale: assert!(playpal.len() >= 768); TRUE when the assertion holds
ComputeGrayscaleOk(playpal) == playpal.len >= PALETTE_SIZE

UnwrapOr(v, dflt) == IF v < 0 THEN dflt ELSE v

FontCode(name) ==
    IF SubSeq(name, 1, 5) = N_STCFN THEN UnwrapOr(Atoi(SubSeq(name, 6, Len(name))), NO_CODE)
    ELSE IF SubSeq(name, 1, 5) = N_FONTA
    THEN UnwrapOr(Atoi(SubSeq(name, 6, Len(name))), NO_CODE) + 32
    ELSE NO_CODE

FontIndex(code) ==
    IF code >= 33 /\ code <= 95 THEN code - 33
    ELSE IF code = 121 \/ code = 124 THEN 63
    ELSE NO_CODE

\* add_font_lump: a lump that passed the patch scan has width > 0 and height > 0,
\* so the pixmap stored is non-empty
AddFontLump(font, name, bytes) ==
    IF Len(name) > 6
    THEN LET idx == FontIndex(FontCode(name)) IN
         IF idx <= 63 THEN font \cup {idx} ELSE font
    ELSE font

FontIsComplete(font) == \A i \in 0..MaxRequiredGlyph : i \in font

GraphicsNew == [patches |-> {}, flats |-> {}, pnames |-> EmptyBytes, textures |-> {}]

AddPatch(gfx, name, bytes) == [gfx EXCEPT !.patches = @ \cup {HashLumpName(name)}]

AddFlat(gfx, name, bytes) == [gfx EXCEPT !.flats = @ \cup {HashLumpName(name)}]

\* set_patch_names: [ok, gfx]
SetPatchNames(gfx, patches) ==
    IF patches.len <= 4 THEN [ok |-> FALSE, gfx |-> gfx]
    ELSE IF patches.len < 4 + patches.cnt * 8 THEN [ok |-> FALSE, gfx |-> gfx]
    ELSE [ok |-> TRUE, gfx |-> [gfx EXCEPT !.pnames = patches]]

\* mutant: the texture's length is not compared with the lump's length
RECURSIVE AddTexturesFrom_NoLengthCheck(_, _, _)
AddTexturesFrom_NoLengthCheck(gfx, bytes, t) ==
    IF t >= bytes.cnt THEN [ok |-> TRUE, gfx |-> gfx]
    ELSE LET offs == bytes.tex[t + 1].offs
             tex_len == 22 + 10 * bytes.tex[t + 1].patch_count
         IN IF bytes.len <= offs + 28 THEN [ok |-> FALSE, gfx |-> gfx]
            ELSE AddTexturesFrom_NoLengthCheck(
                     [gfx EXCEPT !.textures = @ \cup {[key |-> bytes.tex[t + 1].key,
                                                        offs |-> offs, len |-> tex_len]}],
                     bytes, t + 1)

RECURSIVE AddTexturesFrom(_, _, _)
AddTexturesFrom(gfx, bytes, t) ==
    IF t >= bytes.cnt THEN [ok |-> TRUE, gfx |-> gfx]
    ELSE LET offs == bytes.tex[t + 1].offs
             tex_len == 22 + 10 * bytes.tex[t + 1].patch_count
         IN IF bytes.len <= offs + 28 THEN [ok |-> FALSE, gfx |-> gfx]
            ELSE IF bytes.len < offs + tex_len THEN [ok |-> FALSE, gfx |-> gfx]
            ELSE AddTexturesFrom(
                     [gfx EXCEPT !.textures = @ \cup {[key |-> bytes.tex[t + 1].key,
                                                        offs |-> offs, len |-> tex_len]}],
                     bytes, t + 1)

\* add_textures: [ok, gfx]
AddTextures(gfx, bytes) ==
    IF bytes.len <= 8 THEN [ok |-> FALSE, gfx |-> gfx]
    ELSE IF bytes.len <= 4 + 4 * bytes.cnt THEN [ok |-> FALSE, gfx |-> gfx]
    ELSE AddTexturesFrom(gfx, bytes, 0)

-----------------------------------------------------------------------------
(* wad.rs: WadData *)

WadDataNew == [maps |-> <<>>, pal |-> PaletteNew, gfx |-> GraphicsNew, font |-> FontNew]

\* the state in which load goes on with the next lump
Continue(cur, w, flats) ==
    [pc |-> "parse", lump_idx |-> lump_idx + 1, is_flats |-> flats,
     cur |-> cur, wad |-> w, result |-> NoResult]

\* the state in which load has returned early: the WadData and the locals are dropped
Fail(res) ==
    [pc |-> "done", lump_idx |-> 0, is_flats |-> FALSE,
     cur |-> NoMap, wad |-> NoWad, result |-> res]

\* parse_wad_lumps, `match lump_name.as_str()`: the lump is a global resource
ParseOtherLump(name, bytes, w) ==
    IF name = N_PLAYPAL
    THEN LET w1 == [w EXCEPT !.pal = InitPalettes(@, bytes)] IN
         IF ~ComputeGrayscaleOk(bytes) THEN Fail(Panic("compute_grayscale"))
         ELSE Continue(NoMap, w1, is_flats)
    ELSE IF name = N_COLORMAP
    THEN Continue(NoMap, [w EXCEPT !.pal = InitColormaps(@, bytes)], is_flats)
    ELSE IF name = N_PNAMES
    THEN LET r == SetPatchNames(w.gfx, bytes) IN
         IF ~r.ok THEN Fail(Err("PnamesTooSmall", <<>>))
         ELSE Continue(NoMap, [w EXCEPT !.gfx = r.gfx], is_flats)
    ELSE IF name = N_F_START THEN Continue(NoMap, w, TRUE)
    ELSE IF name = N_F_END THEN Continue(NoMap, w, FALSE)
    ELSE IF IsTextureName(name)
    THEN LET r == AddTextures(w.gfx, bytes) IN
         IF ~r.ok THEN Fail(Err("TextureOutOfBounds", <<>>))
         ELSE Continue(NoMap, [w EXCEPT !.gfx = r.gfx], is_flats)
    ELSE IF bytes.len > 0 /\ is_flats
    THEN Continue(NoMap, [w EXCEPT !.gfx = AddFlat(@, name, bytes)], is_flats)
    ELSE IF QuickCheckIfLumpIsGraphic(bytes)
    THEN LET w1 == [w EXCEPT !.gfx = AddPatch(@, name, bytes)] IN
         IF IsFontName(name)
         THEN Continue(NoMap, [w1 EXCEPT !.font = AddFontLump(@, name, bytes)], is_flats)
         ELSE Continue(NoMap, w1, is_flats)
    ELSE Continue(NoMap, w, is_flats)

\* mutant: the lump that ended a level is never taken as the next level's marker
ParseAfterMap_NoMarker(name, bytes, w) == ParseOtherLump(name, bytes, w)

\* parse_wad_lumps: what follows the map-lump stage, with the maps stored so far
ParseAfterMap(name, bytes, w) ==
    IF IsMapName(name) THEN Continue(MapDataNew(name), w, is_flats)
    ELSE ParseOtherLump(name, bytes, w)

\* parse_wad_lumps: one iteration of the loop, on directory entry e, which lies in the file
ParseOneLump(e) ==
    LET nm == ExtractLumpName(e.field)
        lump_end == e.start + e.size
    IN
    IF ~nm.ok THEN Fail(Err("InvalidLumpName", lump_idx))
    ELSE IF lump_end >= file.len THEN Fail(Err("LumpTooBig", nm.name))
    ELSE IF currently_parsing_map # NoMap
    THEN LET al == AddLump(currently_parsing_map, nm.name, e.bytes) IN
         IF al.panicked THEN Fail(Panic("compute_map_bounds"))
         ELSE IF al.still_parsing THEN Continue(al.map, wad, is_flats)
         ELSE IF ~IsComplete(al.map) THEN Fail(Err("IncompleteMap", al.map.name))
         ELSE ParseAfterMap(nm.name, e.bytes, [wad EXCEPT !.maps = Append(@, al.map)])
    ELSE ParseAfterMap(nm.name, e.bytes, wad)

\* mutant: the font is not checked
ValidateCollectedData_NoFont(w) ==
    IF ~PaletteIsInitialized(w.pal) THEN Err("NoPalette", <<>>)
    ELSE IF Len(w.maps) = 0 THEN Err("NoMaps", <<>>)
    ELSE Ok

\* validate_collected_data
ValidateCollectedData(w) ==
    IF ~PaletteIsInitialized(w.pal) THEN Err("NoPalette", <<>>)
    ELSE IF Len(w.maps) = 0 THEN Err("NoMaps", <<>>)
    ELSE IF ~FontIsComplete(w.font) THEN Err("NoFonts", <<>>)
    ELSE Ok

-----------------------------------------------------------------------------
(* The files the model draws *)

MapLumpNames ==
    {N_THINGS, N_LINEDEFS, N_SIDEDEFS, N_VERTEXES, N_SEGS,
     N_SSECTORS, N_NODES, N_SECTORS, N_REJECT, N_BLOCKMAP}

MarkerNames == {N_E1M1, N_MAP01}

Plain(len) == Bytes(len, <<>>, FALSE, 0, <<>>)

\* the contents a lump of the given name may have
ContentsFor(name) ==
    IF name = N_VERTEXES
    THEN {EmptyBytes, Plain(2), Bytes(8, <<Vertex(0, 0), Vertex(3, -2)>>, FALSE, 0, <<>>)}
    ELSE IF name \in MapLumpNames THEN {EmptyBytes, Plain(28)}
    ELSE IF name \in MarkerNames THEN {EmptyBytes}
    ELSE IF name = N_PLAYPAL THEN {Plain(767), Plain(768)}
    ELSE IF name = N_COLORMAP THEN {Plain(255), Plain(256)}
    ELSE IF name = N_PNAMES
    THEN {Bytes(4, <<>>, FALSE, 0, <<>>), Bytes(12, <<>>, FALSE, 1, <<>>),
          Bytes(12, <<>>, FALSE, 2, <<>>)}
    ELSE IF name \in {N_F_START, N_F_END} THEN {EmptyBytes}
    ELSE {EmptyBytes, Bytes(16, <<>>, TRUE, 0, <<>>), Plain(16)}

\* the glyph lumps STCFN033, STCFN034, ...: the required glyphs and the one after them
GlyphName(i) == N_STCFN \o <<48, 51, 51 + i>>

GlyphNames == {GlyphName(i) : i \in 0..(MaxRequiredGlyph + 1)}

\* the names of the lumps of a long directory
CoreNames ==
    MapLumpNames \cup MarkerNames \cup {N_PLAYPAL, N_COLORMAP}
    \cup {GlyphName(i) : i \in 0..MaxRequiredGlyph}

ValidNames == CoreNames \cup GlyphNames \cup {N_DEMO1, N_PNAMES, N_F_START, N_F_END}

\* name fields the name check refuses, or cuts short
OddFields == {<<69, 49, 77, 49, 31, 0, 0, 0>>, <<69, 49, 77, 49, 0, 31, 0, 0>>}

NameFields == {Pad8(n) : n \in ValidNames} \cup OddFields

\* where a lump lies: well inside the file, or so that it ends one byte before, at,
\* or one byte after the end of the file
Positions == {"inside", "last", "end", "past"}

StartAt(pos, size, len) ==
    CASE pos = "inside" -> 12
      [] pos = "last" -> len - size - 1
      [] pos = "end" -> len - size
      [] pos = "past" -> len - size + 1

DirEntries ==
    UNION {{[field |-> f, pos |-> p, bytes |-> b] : p \in Positions,
            b \in ContentsFor(ExtractLumpName(f).name)} : f \in NameFields}

RECURSIVE MaxIn(_)
MaxIn(S) == LET x == CHOOSE y \in S : TRUE IN
            IF S = {x} THEN x ELSE MaxOf(x, MaxIn(S \ {x}))

Filled(map) == {i \in 0..(LUMP_CNT - 1) : map.lumps[i].len > 0}

\* the slots a level under construction lacks below its highest filled slot
Holes(map) ==
    IF Filled(map) = {} THEN 0
    ELSE Cardinality({j \in 0..MaxIn(Filled(map)) : j \notin Filled(map)})

\* Directories of at most ShortDir lumps are arbitrary. A longer directory holds
\* core lumps only, all of them inside the file, and each lump changes what has been
\* collected; its levels are named E1M1, MAP01, E1M1, ... in turn, the lumps of a
\* level come in the order of their slots, at most MaxSkipped of them missing, and
\* its glyphs come in the order of their codes.
LongDir == file.lump_count > ShortDir

MarkerOrder == <<N_E1M1, N_MAP01>>

LevelsBegun == Len(wad.maps) + (IF currently_parsing_map = NoMap THEN 0 ELSE 1)

NameOffered(name) ==
    IF name \in MarkerNames THEN name = MarkerOrder[(LevelsBegun % 2) + 1]
    ELSE IF name \in MapLumpNames
    THEN IF currently_parsing_map # NoMap /\ Filled(currently_parsing_map) # {}
         THEN LumpIndex(name) >= MaxIn(Filled(currently_parsing_map))
         ELSE TRUE
    ELSE IF name \in GlyphNames THEN name = GlyphName(Cardinality(wad.font))
    ELSE name \in CoreNames

EntryOffered(e) ==
    IF LongDir
    THEN e.pos = "inside" /\ NameOffered(ExtractLumpName(e.field).name)
    ELSE StartAt(e.pos, e.bytes.len, file.len) >= 0

InputBound(r) ==
    IF LongDir
    THEN /\ <<r.cur, r.wad, r.result>> # <<currently_parsing_map, wad, result>>
         /\ IF r.cur = NoMap THEN TRUE ELSE Holes(r.cur) <= MaxSkipped
    ELSE TRUE

SmallLens == {8, 16, 17, 28}
Magics == {N_IWAD, N_PWAD, <<73, 87, 65, 88>>, <<255, 87, 65, 68>>}

LumpCounts ==
    {n \in 0..MaxLumps :
        n <= ShortDir \/ n \in {MaxLumps - 8, MaxLumps}}

Files ==
    [len : {BigLen}, magic : {N_IWAD}, lump_count : LumpCounts, dir_offset : {12}]
    \cup [len : SmallLens \cup {BigLen}, magic : Magics, lump_count : 0..2,
          dir_offset : {12, BigLen - 16, BigLen + 100}]

-----------------------------------------------------------------------------
(* WadData::load as a state machine *)

InitWad ==
    /\ file \in Files
    /\ is_iwad \in BOOLEAN
    /\ (file.lump_count > 2 => is_iwad)
    /\ pc = "load"
    /\ lump_idx = 0
    /\ is_flats = FALSE
    /\ currently_parsing_map = NoMap
    /\ wad = NoWad
    /\ result = NoResult
    /\ lump = NoLump
    /\ NoView /\ NoFovTest /\ NoQuery /\ NoSideTest /\ NoStore /\ NoCall

SetState(r) ==
    /\ pc' = r.pc
    /\ lump_idx' = r.lump_idx
    /\ is_flats' = r.is_flats
    /\ currently_parsing_map' = r.cur
    /\ wad' = r.wad
    /\ result' = r.result

\* mutant: the kind is not compared
CheckHeader_NoKind(f, iwad) ==
    IF f.len <= MIN_WAD_LEN THEN Err("TooSmall", <<>>)
    ELSE IF \E i \in 1..4 : f.magic[i] >= 128 THEN Err("InvalidHeader", <<>>)
    ELSE NoResult

\* load: the check of the WAD header; NoResult when the header passes
CheckHeader(f, iwad) ==
    LET expected_kind_str == IF iwad THEN N_IWAD ELSE N_PWAD IN
    IF f.len <= MIN_WAD_LEN THEN Err("TooSmall", <<>>)
    ELSE IF \E i \in 1..4 : f.magic[i] >= 128 THEN Err("InvalidHeader", <<>>)
    ELSE IF expected_kind_str # f.magic
    THEN Err("InvalidWadType", <<expected_kind_str, f.magic>>)
    ELSE NoResult

\* load, up to the call of parse_wad_lumps
LoadHeader ==
    /\ pc = "load"
    /\ LET res == CheckHeader(file, is_iwad) IN
       IF res # NoResult THEN SetState(Fail(res))
       ELSE SetState([pc |-> "parse", lump_idx |-> 0, is_flats |-> FALSE, cur |-> NoMap,
                      wad |-> WadDataNew, result |-> NoResult])
    /\ UNCHANGED <<file, is_iwad, lump, levelVars, unitVars>>

\* parse_wad_lumps: one loop iteration whose directory entry lies in the file
ParseLump ==
    /\ pc = "parse"
    /\ lump_idx < file.lump_count
    /\ file.dir_offset + DIR_ENTRY_SIZE * lump_idx + DIR_ENTRY_SIZE <= file.len
    /\ \E e \in DirEntries :
         /\ EntryOffered(e)
         /\ LET entry == [field |-> e.field, size |-> e.bytes.len, bytes |-> e.bytes,
                          start |-> StartAt(e.pos, e.bytes.len, file.len)]
                r == ParseOneLump(entry)
            IN /\ InputBound(r)
               /\ SetState(r)
               /\ lump' = [idx |-> lump_idx, field |-> entry.field, start |-> entry.start,
                           size |-> entry.size]
    /\ UNCHANGED <<file, is_iwad, levelVars, unitVars>>

\* parse_wad_lumps: one loop iteration whose directory entry reaches past the end
\* of the file: slicing wad_bytes panics
ParseLumpOutsideFile ==
    /\ pc = "parse"
    /\ lump_idx < file.lump_count
    /\ file.dir_offset + DIR_ENTRY_SIZE * lump_idx + DIR_ENTRY_SIZE > file.len
    /\ SetState(Fail(Panic("directory")))
    /\ lump' = NoLump
    /\ UNCHANGED <<file, is_iwad, levelVars, unitVars>>

\* the loop is over: validate_collected_data, and load returns
Validate ==
    /\ pc = "parse"
    /\ lump_idx >= file.lump_count
    /\ LET res == ValidateCollectedData(wad) IN
       IF res = Ok
       THEN SetState([pc |-> "done", lump_idx |-> 0, is_flats |-> FALSE, cur |-> NoMap,
                      wad |-> wad, result |-> Ok])
       ELSE SetState(Fail(res))
    /\ UNCHANGED <<file, is_iwad, lump, levelVars, unitVars>>

NextWad == LoadHeader \/ ParseLump \/ ParseLumpOutsideFile \/ Validate

Spec == InitWad /\ [][NextWad]_vars

-----------------------------------------------------------------------------
(* Properties of the loader *)

Digits == 48..57

\* the level-marker grammar: E<digit>M<digit> and MAP<digit><digit>
LevelMarkers ==
    {<<69, a, 77, b>> : a \in Digits, b \in Digits}
    \cup {<<77, 65, 80, a, b>> : a \in Digits, b \in Digits}

\* the fixed enumeration of map lumps, in the order of their slots
MapLumpOrder ==
    <<N_THINGS, N_LINEDEFS, N_SIDEDEFS, N_VERTEXES, N_SEGS,
      N_SSECTORS, N_NODES, N_SECTORS, N_REJECT, N_BLOCKMAP>>

Enumeration == {MapLumpOrder[i] : i \in 1..10}

SlotOf(n) == (CHOOSE i \in 1..10 : MapLumpOrder[i] = n) - 1

Slots == 0..9

ExpectedKind == IF is_iwad THEN N_IWAD ELSE N_PWAD

\* a step of the loop that read a directory entry
LumpStep == pc = "parse" /\ lump' # lump /\ lump' # NoLump

\* a step of the loop that took its lump and goes on
LumpTaken == LumpStep /\ pc' = "parse"

LumpNameNext == ExtractLumpName(lump'.field).name

C1_Step ==
    LumpTaken =>
        IF currently_parsing_map # NoMap /\ LumpNameNext \in Enumeration
        THEN /\ currently_parsing_map' # NoMap
             /\ currently_parsing_map'.name = currently_parsing_map.name
             /\ currently_parsing_map'.lumps[SlotOf(LumpNameNext)].len = lump'.size
             /\ \A i \in Slots \ {SlotOf(LumpNameNext)} :
                    currently_parsing_map'.lumps[i] = currently_parsing_map.lumps[i]
             /\ wad' = wad
        ELSE /\ wad'.maps = IF currently_parsing_map # NoMap
                            THEN Append(wad.maps, currently_parsing_map)
                            ELSE wad.maps
             /\ IF LumpNameNext \in LevelMarkers
                THEN /\ currently_parsing_map' # NoMap
                     /\ currently_parsing_map'.name = LumpNameNext
                     /\ \A i \in Slots : currently_parsing_map'.lumps[i].len = 0
                     /\ wad'.pal = wad.pal /\ wad'.font = wad.font /\ wad'.gfx = wad.gfx
                ELSE /\ currently_parsing_map' = NoMap
                     /\ LumpNameNext = N_PLAYPAL => wad'.pal.pal_cnt = lump'.size \div 768
                     /\ LumpNameNext = N_COLORMAP => wad'.pal.cmap_cnt = lump'.size \div 256

\* C1: during the scan a level marker starts a new map accumulator; a following lump
\* of the enumeration is stored in its slot of that accumulator and has no other
\* effect; the first lump outside the enumeration makes the accumulated map the last
\* of the stored maps and is then itself taken as a level marker or as a global
\* resource; stored maps are only ever extended at the end.
C1_MapScan == [][C1_Step]_vars

\* two levels are stored in directory order and the marker that ended the second
\* has begun a third
C1_Witness ==
    /\ pc = "parse"
    /\ wad # NoWad
    /\ Len(wad.maps) = 2
    /\ wad.maps[1].name = N_E1M1
    /\ wad.maps[2].name = N_MAP01
    /\ currently_parsing_map # NoMap

\* C2: the out-of-bounds error is returned only for a lump with start+size beyond
\* the file length; a lump with start+size <= file length passes the check.
C2_BoundsCheckPasses ==
    (result.kind = "Err" /\ result.what = "LumpTooBig") => lump.start + lump.size > file.len

\* C3: a file shorter than the header is refused as too small, a file of the wrong
\* kind is refused, in both cases there is no container; the too-small error is
\* given to short files only and the wrong-kind error to files of the wrong kind
\* only; no lump is read and none is parsed unless the header is whole and of the
\* expected kind.
C3_HeaderCheck ==
    /\ (pc = "done" /\ file.len < HEADER_SIZE) =>
           (result = Err("TooSmall", <<>>) /\ wad = NoWad)
    /\ (pc = "done" /\ file.magic # ExpectedKind) => (result.kind = "Err" /\ wad = NoWad)
    /\ (result.kind = "Err" /\ result.what = "TooSmall") => file.len <= MIN_WAD_LEN
    /\ (result.kind = "Err" /\ result.what = "InvalidWadType") =>
           (file.magic # ExpectedKind /\ file.len >= HEADER_SIZE)
    /\ (pc = "parse" \/ lump # NoLump \/ wad # NoWad) =>
           (file.len >= HEADER_SIZE /\ file.magic = ExpectedKind)

\* an add-on file offered as a primary one is refused as of the wrong kind
C3_Witness ==
    /\ pc = "done"
    /\ result = Err("InvalidWadType", <<N_IWAD, N_PWAD>>)
    /\ wad = NoWad

C4_Step ==
    /\ (/\ LumpStep
        /\ currently_parsing_map # NoMap
        /\ LumpNameNext \notin Enumeration
        /\ ~(result'.kind = "Err" /\ result'.what \in {"InvalidLumpName", "LumpTooBig"}))
       => IF \E i \in Slots : currently_parsing_map.lumps[i].len = 0
          THEN /\ result' = Err("IncompleteMap", currently_parsing_map.name)
               /\ wad' = NoWad
          ELSE /\ ~(result'.kind = "Err" /\ result'.what = "IncompleteMap")
               /\ wad' # NoWad => wad'.maps = Append(wad.maps, currently_parsing_map)
    /\ wad' # NoWad =>
           \A k \in 1..Len(wad'.maps) : \A i \in Slots : wad'.maps[k].lumps[i].len > 0

\* C4: when a lump outside the enumeration ends a level of which some slot is
\* empty, load fails with the incomplete-map error naming the level and there is no
\* container; every stored map has all ten slots non-empty.
C4_IncompleteMap == [][C4_Step]_vars

\* a level E1M1 lacking a lump was ended
C4_Witness ==
    /\ pc = "done"
    /\ result = Err("IncompleteMap", N_E1M1)
    /\ ExtractLumpName(lump.field).name \notin Enumeration

AllCollected ==
    /\ wad.pal.pal_cnt > 0
    /\ wad.pal.cmap_cnt > 0
    /\ Len(wad.maps) >= 1
    /\ \A i \in 0..MaxRequiredGlyph : i \in wad.font

C5_Step ==
    /\ (pc = "parse" /\ lump_idx >= file.lump_count /\ pc' = "done") =>
           IF AllCollected THEN result' = Ok /\ wad' = wad
           ELSE result'.kind = "Err" /\ wad' = NoWad
    /\ (result.kind # "Ok" /\ result'.kind = "Ok") =>
           (pc = "parse" /\ lump_idx >= file.lump_count /\ AllCollected)
    /\ result'.kind \in {"Err", "Panic"} => wad' = NoWad

\* C5: load returns a container only after the last lump, and only if palette and
\* colour maps are initialised, a map is stored and every required glyph is
\* there; otherwise it returns an error and no container.
C5_Validation == [][C5_Step]_vars

\* a load that returned a container
C5_Witness == pc = "done" /\ result = Ok /\ wad # NoWad /\ Len(wad.maps) = 1

\* C6: when the header passes and the directory reaches beyond the file, load
\* returns an error value.
C6_DirectoryOutsideFile ==
    (/\ pc = "done"
     /\ file.len > MIN_WAD_LEN
     /\ file.magic = ExpectedKind
     /\ file.dir_offset + DIR_ENTRY_SIZE * file.lump_count > file.len)
    => result.kind = "Err"

\* the lump read by this loop iteration passed the name check and the bounds check
LumpAccepted ==
    LumpStep /\ ExtractLumpName(lump'.field).ok /\ lump'.start + lump'.size < file.len

\* this loop iteration hands a VERTEXES lump of less than one record to the
\* level under construction
ShortVertexesStep ==
    /\ LumpAccepted
    /\ currently_parsing_map # NoMap
    /\ LumpNameNext = N_VERTEXES
    /\ lump'.size < VERTEX_SIZE

\* C26: a VERTEXES lump that is empty or shorter than one 4-byte record never
\* ends the load fatally: the load goes on with the level still incomplete, to
\* be reported as an incomplete level, and no level with such a lump is stored.
C26_ShortVertexes ==
    [][ShortVertexesStep
       => /\ result'.kind # "Panic"
          /\ pc' = "parse"
          /\ currently_parsing_map' # NoMap
          /\ ~IsComplete(currently_parsing_map')]_vars

\* ingesting a VERTEXES lump of less than one record panics in compute_map_bounds
ShortVertexesFatal ==
    [][ShortVertexesStep
       => /\ pc' = "done"
          /\ result' = Panic("compute_map_bounds")
          /\ wad' = NoWad]_vars

\* this loop iteration reads a PLAYPAL lump of less than one palette as a global
\* resource
ShortPlaypalStep ==
    /\ LumpAccepted
    /\ currently_parsing_map = NoMap
    /\ LumpNameNext = N_PLAYPAL
    /\ lump'.size < PALETTE_SIZE

\* C27: a PLAYPAL lump shorter than one palette of 768 bytes never ends the load
\* fatally: it leaves the palette uninitialised, and a load that ends with the
\* palette in this state returns the palette/colour-map error.
C27_ShortPlaypal ==
    [][/\ ShortPlaypalStep
          => /\ result'.kind # "Panic"
             /\ pc' = "parse"
             /\ ~PaletteIsInitialized(wad'.pal)
       /\ (pc = "parse" /\ pc' = "done" /\ lump' = lump /\ ~PaletteIsInitialized(wad.pal))
          => result' = Err("NoPalette", <<>>)]_vars

\* reading a PLAYPAL lump of less than one palette panics in compute_grayscale
ShortPlaypalFatal ==
    [][ShortPlaypalStep
       => /\ pc' = "done"
          /\ result' = Panic("compute_grayscale")
          /\ wad' = NoWad]_vars

-----------------------------------------------------------------------------
(* angle.rs: Angle.  The f64 radians are modelled in fixed point: one degree is *)
(* UNITS_PER_DEGREE units, so that a half turn (PI) is 180 * UNITS_PER_DEGREE.  *)

\* the largest distance between two grid points of the field-of-view inputs
GridMax == 2

UNITS_PER_DEGREE == 8192

PI == 180 * UNITS_PER_DEGREE
PI2 == 2 * PI

Degrees(d) == d * UNITS_PER_DEGREE

\* f64 %: the remainder has the sign of the dividend
Rem(a, m) == IF a >= 0 THEN a % m ELSE -((-a) % m)

\* Angle::from_radians
FromRadians(rad) ==
    LET r == Rem(rad, PI2) IN
    IF r >= 0 THEN r ELSE r + PI2

\* Angle::with_180_deg
With180Deg == PI

\* f64::atan2 of non-negative arguments up to 5, rounded to the unit: Atan2Table[dx + 1][dy + 1]
Atan2Table ==
    << <<     0, 737280, 737280, 737280, 737280, 737280>>,
       <<     0, 368640, 519659, 586261, 622295, 644629>>,
       <<     0, 217621, 368640, 461291, 519659, 558683>>,
       <<     0, 151019, 275989, 368640, 435242, 483625>>,
       <<     0, 114985, 217621, 302038, 368640, 420579>>,
       <<     0,  92651, 178597, 253655, 316701, 368640>> >>

Abs(x) == IF x >= 0 THEN x ELSE -x

\* f64::atan2(dy, dx), in (-PI, PI]
Atan2(dy, dx) ==
    LET q == Atan2Table[Abs(dx) + 1][Abs(dy) + 1] IN
    IF dx >= 0 THEN (IF dy >= 0 THEN q ELSE -q)
    ELSE (IF dy >= 0 THEN PI - q ELSE q - PI)

\* Angle::from_vector_delta
FromVectorDelta(dx, dy) == FromRadians(Atan2(dy, dx))

\* Angle::from_vector
FromVector(orig, dir) == FromVectorDelta(dir.x - orig.x, dir.y - orig.y)

\* impl Add<Self> for Angle
AngleAdd(a, b) == FromRadians(a + b)

\* impl Sub<Self> for Angle
AngleSub(a, b) == FromRadians(a - b)

\* impl Mul<f64> for Angle, for a whole factor
AngleMul(a, k) == FromRadians(a * k)

-----------------------------------------------------------------------------
(* level.rs: the field-of-view test *)

NotCalled == [called |-> FALSE, kind |-> "NotCalled"]
Returned(v) == [called |-> TRUE, kind |-> "Returned", value |-> v]

\* mutant: only the two endpoint tests
IsSegInPlayerFov_EndpointsOnly(p, half_fov, s) ==
    LET a1 == FromVector(p.pos, s.start)
        a2 == FromVector(p.pos, s.end)
    IN IF a1 = a2 THEN FALSE
       ELSE IF AngleSub(a1, a2) >= With180Deg THEN FALSE
       ELSE AngleAdd(AngleSub(a1, p.angle), half_fov) < AngleMul(half_fov, 2)
            \/ AngleAdd(AngleSub(a2, p.angle), half_fov) < AngleMul(half_fov, 2)

\* mutant: the end of the window belongs to it
IsSegInPlayerFov_ClosedWindow(p, half_fov, s) ==
    LET a1 == FromVector(p.pos, s.start)
        a2 == FromVector(p.pos, s.end)
    IN IF a1 = a2 THEN FALSE
       ELSE LET span_v1_to_v2 == AngleSub(a1, a2) IN
            IF span_v1_to_v2 >= With180Deg THEN FALSE
            ELSE LET full_fov == AngleMul(half_fov, 2)
                     a1r == AngleAdd(AngleSub(a1, p.angle), half_fov)
                     a2r == AngleAdd(AngleSub(a2, p.angle), half_fov)
                 IN a1r < full_fov \/ a2r <= full_fov
                    \/ a1r < AngleAdd(full_fov, span_v1_to_v2)

\* ActiveLevel::is_seg_in_player_fov
IsSegInPlayerFov(p, half_fov, s) ==
    LET a1 == FromVector(p.pos, s.start)
        a2 == FromVector(p.pos, s.end)
    IN IF a1 = a2 THEN FALSE
       ELSE LET span_v1_to_v2 == AngleSub(a1, a2) IN
            IF span_v1_to_v2 >= With180Deg THEN FALSE
            ELSE LET full_fov == AngleMul(half_fov, 2)
                     a1r == AngleAdd(AngleSub(a1, p.angle), half_fov)
                     a2r == AngleAdd(AngleSub(a2, p.angle), half_fov)
                 IN a1r < full_fov \/ a2r < full_fov
                    \/ a1r < AngleAdd(full_fov, span_v1_to_v2)

\* the inputs of the test
Grid == {Vertex(x, y) : x \in (-GridMax)..GridMax, y \in (-GridMax)..GridMax}

FovPositions == {Vertex(0, 0), Vertex(1, 0)}

Facings == {Degrees(0), Degrees(45), Degrees(135), Degrees(180), Degrees(270), Degrees(315)}

\* GameConfig::new computes hfov from the screen size, which gives less than 90
\* degrees; is_seg_in_player_fov reads whatever the configuration holds
HalfFovs == {Atan2(1, 2), Degrees(45), Degrees(90), Degrees(135), Degrees(170)}

InitFov ==
    /\ player \in [pos : FovPositions, angle : Facings]
    /\ hfov \in HalfFovs
    /\ seg \in [start : Grid, end : Grid]
    /\ seg_in_fov = NotCalled
    /\ NoLoad /\ NoQuery /\ NoSideTest /\ NoStore /\ NoCall

IsSegInPlayerFovCall ==
    /\ seg_in_fov = NotCalled
    /\ seg_in_fov' = Returned(IsSegInPlayerFov(player, hfov, seg))
    /\ UNCHANGED <<wadVars, viewVars, seg, bspVars, sideVars, unitVars>>

NextFov == IsSegInPlayerFovCall

SpecFov == InitFov /\ [][NextFov]_vars

-----------------------------------------------------------------------------
(* Properties of the field-of-view test *)

\* an angle brought into [0, 360) degrees
Norm(x) == x % Degrees(360)

DirA1 == FromVector(player.pos, seg.start)
DirA2 == FromVector(player.pos, seg.end)
Span == Norm(DirA1 - DirA2)
RelA1 == Norm(DirA1 - player.angle + hfov)
RelA2 == Norm(DirA2 - player.angle + hfov)

\* C7: the test returns true exactly when a1 # a2, span < 180 degrees and
\* (a1' < 2H or a2' < 2H or a1' < 2H + span), the sum 2H + span taken as it is,
\* also when it reaches a full circle; a segment with a1 = a2 is refused.
C7_FovFormula ==
    seg_in_fov.called =>
        /\ seg_in_fov.value =
               (/\ DirA1 # DirA2
                /\ Span < Degrees(180)
                /\ (RelA1 < 2 * hfov \/ RelA2 < 2 * hfov \/ RelA1 < 2 * hfov + Span))
        /\ DirA1 = DirA2 => seg_in_fov.value = FALSE

\* with a half-FOV of 170 degrees a segment is accepted for which 2H + span is a
\* full circle or more
C7_Witness ==
    /\ seg_in_fov = Returned(TRUE)
    /\ hfov = Degrees(170)
    /\ 2 * hfov + Span >= Degrees(360)

\* the segment is not degenerate and faces the viewpoint
FrontFacing == DirA1 # DirA2 /\ Span < Degrees(180)

\* Directions are taken relative to the start of the view window, facing - H: the
\* window [facing - H, facing + H) is [0, 2H), and the counter-clockwise arc from
\* a2 to a1 runs from RelA2 to RelA2 + Span.
EndpointInWindow == RelA1 < 2 * hfov \/ RelA2 < 2 * hfov

\* the arc begins beyond the window, passes the full circle and covers [0, 2H)
ArcCoversWindow == RelA2 >= 2 * hfov /\ RelA2 + Span >= Degrees(360) + 2 * hfov

\* the arc begins beyond the window and ends before the full circle
ArcOutsideWindow == RelA2 >= 2 * hfov /\ RelA2 + Span < Degrees(360)

\* some direction of the arc lies in the window: the arc [RelA2, RelA2 + Span]
\* meets [0, 2H) or, past the full circle, [360, 360 + 2H)
ArcMeetsWindow ==
    \E turn \in {0, 1} :
        /\ RelA2 < Degrees(360) * turn + 2 * hfov
        /\ Degrees(360) * turn <= RelA2 + Span

\* the direction at `rel` from the start of the window lies on the arc
OnArc(rel) == Norm(rel - RelA2) <= Span

\* C25: for a half-FOV H in (0,180) degrees and any facing, a non-degenerate
\* front-facing segment (0 < span < 180 degrees) is accepted exactly when the
\* counter-clockwise arc from a2 to a1 meets the window [facing-H, facing+H): it
\* is accepted with an endpoint in the window or with the arc covering the
\* window, and refused with the arc outside the window; with H = 90 degrees a
\* segment straight ahead is accepted and one straight behind is refused.
C25_ArcMeetsWindow ==
    (seg_in_fov.called /\ FrontFacing) =>
        /\ seg_in_fov.value = ArcMeetsWindow
        /\ EndpointInWindow => seg_in_fov.value
        /\ ArcCoversWindow => seg_in_fov.value
        /\ ArcOutsideWindow => ~seg_in_fov.value
        /\ (hfov = Degrees(90) /\ OnArc(hfov)) => seg_in_fov.value
        /\ (hfov = Degrees(90) /\ OnArc(hfov + Degrees(180)) /\ ~EndpointInWindow)
              => ~seg_in_fov.value

\* a front-facing segment is accepted with both its endpoints outside the
\* window, its arc covering the window
C25_Witness ==
    /\ seg_in_fov = Returned(TRUE)
    /\ FrontFacing
    /\ ~EndpointInWindow
    /\ ArcCoversWindow

\* the arc of a front-facing segment begins at the end of the window, which
\* does not belong to it, and the segment is refused
ArcFromWindowEnd ==
    /\ seg_in_fov = Returned(FALSE)
    /\ FrontFacing
    /\ RelA2 = 2 * hfov

\* with H = 90 degrees: a front-facing segment straight behind, refused
StraightBehind ==
    /\ seg_in_fov = Returned(FALSE)
    /\ FrontFacing
    /\ hfov = Degrees(90)
    /\ OnArc(hfov + Degrees(180))

\* with H = 90 degrees: a front-facing segment straight ahead, accepted
StraightAhead ==
    /\ seg_in_fov = Returned(TRUE)
    /\ FrontFacing
    /\ hfov = Degrees(90)
    /\ OnArc(hfov)

-----------------------------------------------------------------------------
(* map_items.rs: BspNode *)

SSECTOR_FLAG == 32768
U16_MAX == 65535
I16_MAX == 32767
I32_MAX == 2147483647
I16_MIN == -I16_MAX - 1
I32_MIN == -I32_MAX - 1

BspNode(orig, dir, right, left) ==
    [vect_orig |-> orig, vect_dir |-> dir, right_child |-> right, left_child |-> left]

\* impl Sub for Vertex
VertexSub(a, b) == Vertex(a.x - b.x, a.y - b.y)

\* a - b in i32 arithmetic: whether it overflows, and the wrapped difference
SubOverflows(a, b) == (b < 0 /\ a > I32_MAX + b) \/ (b > 0 /\ a < I32_MIN + b)

WrappingSub(a, b) ==
    IF b < 0 /\ a > I32_MAX + b THEN ((a + I32_MIN) - b) + I32_MIN
    ELSE IF b > 0 /\ a < I32_MIN + b THEN ((a - I32_MIN) - b) - I32_MIN
    ELSE a - b

\* mutant: the left child always comes first
ChildIndicesBasedOnPointPos_LeftFirst(n, p, overflow_checks) ==
    Returned(<<n.left_child, n.right_child>>)

\* BspNode::child_indices_based_on_point_pos.  With overflow checks (a debug build)
\* an overflowing subtraction panics, without them it wraps.
ChildIndicesBasedOnPointPos(n, p, overflow_checks) ==
    LET pvect == VertexSub(p, n.vect_orig)
        a == pvect.x * n.vect_dir.y
        b == pvect.y * n.vect_dir.x
        cross_product_dir == WrappingSub(a, b)
    IN IF overflow_checks /\ SubOverflows(a, b) THEN Panic("attempt to subtract with overflow")
       ELSE IF cross_product_dir <= 0
       THEN Returned(<<n.left_child, n.right_child>>)
       ELSE Returned(<<n.right_child, n.left_child>>)

\* the inputs of the classification: 16-bit coordinates, as NODES and THINGS hold them
SideOrigins == {Vertex(0, 0), Vertex(1, 1), Vertex(-2, 3), Vertex(I16_MIN, I16_MAX)}

SideDirs == {Vertex(1, 0), Vertex(0, 1), Vertex(-1, 2), Vertex(0, 0), Vertex(I16_MAX, I16_MAX)}

SidePoints ==
    {Vertex(5, 1), Vertex(5, -1), Vertex(0, 0), Vertex(-1, 0), Vertex(1, 1),
     Vertex(-3, 2), Vertex(I16_MAX, I16_MIN)}

SideChildren == {<<1, SSECTOR_FLAG + 2>>, <<SSECTOR_FLAG, 0>>}

InitSide ==
    /\ \E o \in SideOrigins, d \in SideDirs, c \in SideChildren :
           node = BspNode(o, d, c[1], c[2])
    /\ point \in SidePoints
    /\ kids = NotCalled
    /\ NoLoad /\ NoView /\ NoFovTest /\ NoQuery /\ NoStore /\ NoCall

ChildIndicesCall ==
    /\ kids = NotCalled
    /\ \E overflow_checks \in BOOLEAN :
           kids' = ChildIndicesBasedOnPointPos(node, point, overflow_checks)
    /\ UNCHANGED <<wadVars, viewVars, fovVars, bspVars, node, point, unitVars>>

NextSide == ChildIndicesCall

SpecSide == InitSide /\ [][NextSide]_vars

-----------------------------------------------------------------------------
(* Properties of the classification *)

\* the two products of the cross product, each of which fits 32 bits
CrossLeft == (point.x - node.vect_orig.x) * node.vect_dir.y
CrossRight == (point.y - node.vect_orig.y) * node.vect_dir.x

\* C10: the call returns (left child, right child) when the cross product
\* (p - origin).x*dir.y - (p - origin).y*dir.x is <= 0, and (right child, left
\* child) when it is > 0.
C10_ChildOrder ==
    kids # NotCalled =>
        kids = IF CrossLeft <= CrossRight
               THEN Returned(<<node.left_child, node.right_child>>)
               ELSE Returned(<<node.right_child, node.left_child>>)

\* the child that comes first is the left one
LeftFirst == kids.kind = "Returned" /\ kids.value = <<node.left_child, node.right_child>>

\* C24: for a viewpoint and a splitting line of 16-bit signed coordinates the
\* 32-bit computation of (p - origin).x*dir.y - (p - origin).y*dir.x does not
\* overflow, and the order of the children is the sign of the exact cross product.
C24_CrossProductFits ==
    kids # NotCalled =>
        /\ ~SubOverflows(CrossLeft, CrossRight)
        /\ kids.kind = "Returned"
        /\ LeftFirst <=> CrossLeft <= CrossRight
        /\ node.left_child # node.right_child

\* where the difference of the two products fits 32 bits, the order of the
\* children is the sign of the cross product
ChildOrderWithoutOverflow ==
    (kids # NotCalled /\ ~SubOverflows(CrossLeft, CrossRight)) =>
        /\ kids.kind = "Returned"
        /\ LeftFirst <=> CrossLeft <= CrossRight

\* the difference of the two products is beyond i32::MAX
CrossProductOverflows ==
    /\ kids # NotCalled
    /\ SubOverflows(CrossLeft, CrossRight)
    /\ CrossLeft > CrossRight
    /\ kids = Panic("attempt to subtract with overflow") \/ LeftFirst

-----------------------------------------------------------------------------
(* map.rs, level.rs: the BSP visibility walk *)

\* the largest node table
MaxNodes == 2
\* how many visibility queries are made on a level
MaxQueries == 2

\* the level's VERTEXES, SEGS and SSECTORS as decoded records
Vertexes ==
    <<Vertex(2, 1), Vertex(2, -1), Vertex(2, 2), Vertex(-2, -1), Vertex(-1, 2), Vertex(1, 1)>>

SegRecord(s, e, l) == [start_idx |-> s, end_idx |-> e, linedef_idx |-> l]

Segs == <<SegRecord(0, 1, 10), SegRecord(2, 0, 11), SegRecord(3, 4, 12), SegRecord(5, 2, 13)>>

SSectorRecord(c, f) == [seg_count |-> c, first_seg_idx |-> f]

SSectors == <<SSectorRecord(2, 0), SSectorRecord(1, 2), SSectorRecord(1, 3)>>

\* the splitting line of the node at an index
NodeLine(i) ==
    CASE i % 3 = 0 -> [orig |-> Vertex(0, 0), dir |-> Vertex(1, 0)]
      [] i % 3 = 1 -> [orig |-> Vertex(0, 0), dir |-> Vertex(0, 1)]
      [] OTHER -> [orig |-> Vertex(0, -1), dir |-> Vertex(1, 1)]

LeafRefs == {SSECTOR_FLAG + k : k \in 0..Len(SSectors)}

\* the child references of node i in a table of n nodes: a node built before it, the
\* node itself, a node the table does not have, a sub-sector, a sub-sector SSECTORS
\* does not have
ChildRefs(i, n) == {j \in 0..(MaxNodes - 1) : j <= i \/ j >= n} \cup LeafRefs

\* a table of n nodes with the given right and left children
NodeTable(n, rc, lc) ==
    [i \in 1..n |-> BspNode(NodeLine(i - 1).orig, NodeLine(i - 1).dir, rc[i], lc[i])]

AllRefs == 0..(MaxNodes - 1) \cup LeafRefs

MapOf(t) ==
    [nodes |-> t, ssectors |-> SSectors, segs |-> Segs, vertexes |-> Vertexes,
     bound_min |-> BoundsFrom(Vertexes, 1, Len(Vertexes), Vertexes[1], Vertexes[1]).bl,
     bound_max |-> BoundsFrom(Vertexes, 1, Len(Vertexes), Vertexes[1], Vertexes[1]).tr]

Viewpoints ==
    {[pos |-> Vertex(0, 0), angle |-> Degrees(0)],
     [pos |-> Vertex(1, -1), angle |-> Degrees(90)],
     [pos |-> Vertex(-1, -1), angle |-> Degrees(180)]}

\* MapData::root_bsp_node_idx: with no node the subtraction panics under overflow
\* checks and wraps without them
RootBspNodeIdx(map, overflow_checks) ==
    IF Len(map.nodes) = 0
    THEN IF overflow_checks THEN Panic("attempt to subtract with overflow")
         ELSE Returned(U16_MAX)
    ELSE Returned((Len(map.nodes) - 1) % (U16_MAX + 1))

\* MapData::bsp_node
BspNodeAt(map, idx) ==
    IF idx < Len(map.nodes) THEN Returned(map.nodes[idx + 1]) ELSE Panic("checked_slice")

\* Seg::from_lump
SegFromLump(map, idx) ==
    IF idx >= Len(map.segs) THEN Panic("checked_slice")
    ELSE LET s == map.segs[idx + 1] IN
         IF s.start_idx >= Len(map.vertexes) \/ s.end_idx >= Len(map.vertexes)
         THEN Panic("checked_slice")
         ELSE Returned([start |-> map.vertexes[s.start_idx + 1],
                        end |-> map.vertexes[s.end_idx + 1],
                        linedef_idx |-> s.linedef_idx])

\* MapData::sub_sector
SubSector(map, idx) ==
    IF idx >= Len(map.ssectors) THEN Panic("checked_slice")
    ELSE LET ss == map.ssectors[idx + 1]
             got == [i \in 1..ss.seg_count |-> SegFromLump(map, ss.first_seg_idx + i - 1)]
         IN IF \E i \in 1..ss.seg_count : got[i].kind = "Panic" THEN Panic("checked_slice")
            ELSE Returned([i \in 1..ss.seg_count |-> got[i].value])

IsLeaf(node_idx) == (node_idx \div SSECTOR_FLAG) % 2 = 1

Call(node_idx, depth) == [node_idx |-> node_idx, depth |-> depth]

\* mutant: the second recursive call is left out
RenderNodeCalls_FirstOnly(kid1, kid2, depth) == <<Call(kid1, depth)>>

\* render_node: the two recursive calls, in their order
RenderNodeCalls(kid1, kid2, depth) == <<Call(kid1, depth), Call(kid2, depth)>>

\* mutant: every segment of the sub-sector is pushed
RenderSubSector_NoTest(p, half_fov, segs) == segs

\* render_sub_sector: the segments pushed to the collector
RenderSubSector(p, half_fov, segs) ==
    SelectSeq(segs, LAMBDA s : IsSegInPlayerFov(p, half_fov, s))

\* mutant: the collector of the query before is used again
NewCollector_Reused(old) == old

\* player_visible_segments: Vec::with_capacity gives an empty collector
NewCollector(old) == <<>>

InitBsp ==
    /\ player \in Viewpoints
    /\ hfov = Degrees(45)
    /\ \E n \in 0..MaxNodes :
         \E rc \in [1..n -> AllRefs], lc \in [1..n -> AllRefs] :
             /\ \A i \in 1..n : rc[i] \in ChildRefs(i - 1, n) /\ lc[i] \in ChildRefs(i - 1, n)
             /\ map_data = MapOf(NodeTable(n, rc, lc))
    /\ qpc = "idle"
    /\ stack = <<>>
    /\ seg_collector = <<>>
    /\ visited = <<>>
    /\ qresult = NoResult
    /\ seen_lines = {}
    /\ query_no = 1
    /\ prev_segs = <<>>
    /\ NoLoad /\ NoFovTest /\ NoSideTest /\ NoStore /\ NoCall

\* a panic unwinds the query: there is no result
QueryPanics(p) ==
    /\ qpc' = "done"
    /\ stack' = <<>>
    /\ seg_collector' = <<>>
    /\ qresult' = p

\* player_visible_segments, up to the call of render_node
PlayerVisibleSegments ==
    /\ qpc = "idle"
    /\ \E overflow_checks \in BOOLEAN :
         LET start_idx == RootBspNodeIdx(map_data, overflow_checks) IN
         IF start_idx.kind = "Panic" THEN QueryPanics(start_idx)
         ELSE /\ qpc' = "walk"
              /\ stack' = <<Call(start_idx.value, 0)>>
              /\ seg_collector' = NewCollector(seg_collector)
              /\ UNCHANGED qresult
    /\ UNCHANGED <<wadVars, viewVars, fovVars, sideVars, unitVars, map_data, visited, paintVars>>

\* render_node entered with the index of a node.  A node entered below as many
\* calls as the table has nodes is entered again and again: the recursion has no
\* end and overflows the stack.
RenderNode ==
    /\ qpc = "walk"
    /\ stack # <<>>
    /\ ~IsLeaf(Head(stack).node_idx)
    /\ visited' = Append(visited, Head(stack).node_idx)
    /\ \E overflow_checks \in BOOLEAN :
         LET top == Head(stack)
             n == BspNodeAt(map_data, top.node_idx)
         IN IF n.kind = "Panic" THEN QueryPanics(n)
            ELSE IF top.depth >= Len(map_data.nodes) THEN QueryPanics(Panic("stack overflow"))
            ELSE LET k == ChildIndicesBasedOnPointPos(n.value, player.pos, overflow_checks) IN
                 IF k.kind = "Panic" THEN QueryPanics(k)
                 ELSE /\ stack' = RenderNodeCalls(k.value[1], k.value[2], top.depth + 1)
                                      \o Tail(stack)
                      /\ UNCHANGED <<qpc, seg_collector, qresult>>
    /\ UNCHANGED <<wadVars, viewVars, fovVars, sideVars, unitVars, map_data, paintVars>>

\* render_node entered with a leaf: render_sub_sector
RenderLeaf ==
    /\ qpc = "walk"
    /\ stack # <<>>
    /\ IsLeaf(Head(stack).node_idx)
    /\ visited' = Append(visited, Head(stack).node_idx)
    /\ LET idx == Head(stack).node_idx % SSECTOR_FLAG
           sub_sector_segs == SubSector(map_data, idx)
       IN IF sub_sector_segs.kind = "Panic" THEN QueryPanics(sub_sector_segs)
          ELSE /\ seg_collector' =
                      seg_collector \o RenderSubSector(player, hfov, sub_sector_segs.value)
               /\ stack' = Tail(stack)
               /\ UNCHANGED <<qpc, qresult>>
    /\ UNCHANGED <<wadVars, viewVars, fovVars, sideVars, unitVars, map_data, paintVars>>

\* player_visible_segments returns the collector
QueryReturns ==
    /\ qpc = "walk"
    /\ stack = <<>>
    /\ qpc' = "done"
    /\ qresult' = Ok
    /\ UNCHANGED <<wadVars, viewVars, fovVars, sideVars, unitVars, map_data, stack, seg_collector,
                   visited, paintVars>>

\* line_was_seen
LineWasSeen(seen, line_idx) == seen \cup {line_idx}

RECURSIVE MarkSeen(_, _, _)
MarkSeen(seen, segs, i) ==
    IF i > Len(segs) THEN seen
    ELSE MarkSeen(LineWasSeen(seen, segs[i].linedef_idx), segs, i + 1)

\* temp_paint_segs marks the lines of the segments it got; the painting that
\* follows makes the next query
TempPaintSegs ==
    /\ qpc = "done"
    /\ qresult = Ok
    /\ query_no < MaxQueries
    /\ seen_lines' = MarkSeen(seen_lines, seg_collector, 1)
    /\ prev_segs' = seg_collector
    /\ query_no' = query_no + 1
    /\ qpc' = "idle"
    /\ qresult' = NoResult
    /\ visited' = <<>>
    /\ UNCHANGED <<wadVars, viewVars, fovVars, sideVars, unitVars, map_data, stack, seg_collector>>

NextBsp == PlayerVisibleSegments \/ RenderNode \/ RenderLeaf \/ QueryReturns \/ TempPaintSegs

SpecBsp == InitBsp /\ [][NextBsp]_vars

-----------------------------------------------------------------------------
(* Properties of the visibility walk *)

NodeCount == Len(map_data.nodes)

\* a reference with bit 0x8000 set is a leaf
LeafBit(r) == r >= 32768
LeafIndex(r) == r - 32768

NodeOf(r) == map_data.nodes[r + 1]

KidsOf(r) == {NodeOf(r).right_child, NodeOf(r).left_child}

\* the references reachable from a set of references in at most k steps
RECURSIVE ReachFrom(_, _)
ReachFrom(S, k) ==
    IF k = 0 THEN S
    ELSE ReachFrom(S \cup UNION {KidsOf(r) : r \in {x \in S : x >= 0 /\ x < NodeCount}}, k - 1)

Reachable == ReachFrom({NodeCount - 1}, NodeCount + 1)

ReachableNodes == {r \in Reachable : r >= 0 /\ r < NodeCount}

InternalRefsInRange ==
    \A i \in 0..(NodeCount - 1) : \A r \in KidsOf(i) : ~LeafBit(r) => r < NodeCount

NoNodeReachableFromItself ==
    \A i \in 0..(NodeCount - 1) : i \notin ReachFrom(KidsOf(i), NodeCount + 1)

VisitCount(r) == Cardinality({k \in 1..Len(visited) : visited[k] = r})

Visited == {visited[k] : k \in 1..Len(visited)}

\* the segs of a sub-sector, in increasing seg index, as the query holds them
SegAt(i) ==
    [start |-> Vertexes[Segs[i + 1].start_idx + 1],
     end |-> Vertexes[Segs[i + 1].end_idx + 1],
     linedef_idx |-> Segs[i + 1].linedef_idx]

LeafSegs(k) ==
    [i \in 1..SSectors[k + 1].seg_count |-> SegAt(SSectors[k + 1].first_seg_idx + i - 1)]

Passing(segs) == SelectSeq(segs, LAMBDA s : IsSegInPlayerFov(player, hfov, s))

\* the child on the viewpoint's side of a node's splitting line, and the other one
OnLeft(r) ==
    (player.pos.x - NodeOf(r).vect_orig.x) * NodeOf(r).vect_dir.y
        <= (player.pos.y - NodeOf(r).vect_orig.y) * NodeOf(r).vect_dir.x
NearKid(r) == IF OnLeft(r) THEN NodeOf(r).left_child ELSE NodeOf(r).right_child
FarKid(r) == IF OnLeft(r) THEN NodeOf(r).right_child ELSE NodeOf(r).left_child

\* what a subtree gives: the near child's subtree first, then the other's
RECURSIVE NearToFar(_, _)
NearToFar(r, fuel) ==
    IF LeafBit(r) THEN Passing(LeafSegs(LeafIndex(r)))
    ELSE IF fuel = 0 THEN <<>>
    ELSE NearToFar(NearKid(r), fuel - 1) \o NearToFar(FarKid(r), fuel - 1)

QueryReturned == qpc = "done" /\ qresult = Ok

RECURSIVE PassingOfVisited(_)
PassingOfVisited(k) ==
    IF k = 0 THEN <<>>
    ELSE PassingOfVisited(k - 1)
         \o (IF LeafBit(visited[k]) THEN Passing(LeafSegs(LeafIndex(visited[k]))) ELSE <<>>)

Slots9 == ReachableNodes \X {"right", "left"}
SlotRef(s) == IF s[2] = "right" THEN NodeOf(s[1]).right_child ELSE NodeOf(s[1]).left_child

\* the table is a tree whose references all exist
IsTree ==
    /\ NodeCount >= 1
    /\ InternalRefsInRange
    /\ NoNodeReachableFromItself
    /\ \A r \in Reachable : LeafBit(r) => LeafIndex(r) < Len(map_data.ssectors)
    /\ \A k \in 1..Len(map_data.ssectors) :
           map_data.ssectors[k].first_seg_idx + map_data.ssectors[k].seg_count
               <= Len(map_data.segs)
    /\ \A k \in 1..Len(map_data.segs) :
           /\ map_data.segs[k].start_idx < Len(map_data.vertexes)
           /\ map_data.segs[k].end_idx < Len(map_data.vertexes)
    /\ \A s, t \in Slots9 : s # t => SlotRef(s) # SlotRef(t)

QueryStep == qpc \in {"idle", "walk"}

C11_Step ==
    /\ QueryStep =>
           /\ map_data' = map_data
           /\ player' = player
           /\ hfov' = hfov
           /\ seen_lines' = seen_lines
    /\ (QueryStep /\ qpc' = "done" /\ qresult' = Ok /\ query_no > 1) =>
           seg_collector' = prev_segs

\* C11: a visibility query leaves the level's lumps, its bounding box, the player's
\* position and facing and the seen-lines table as they were, and a query made
\* again with the same viewpoint, facing and half-FOV on the same level returns a
\* sequence equal to the one before, holding nothing of the earlier collector.
C11_QueryPure == [][C11_Step]_vars

\* a second query returned segments, after lines were marked as seen
C11_Witness ==
    /\ QueryReturned
    /\ query_no = 2
    /\ seg_collector # <<>>
    /\ seen_lines # {}

-----------------------------------------------------------------------------
(* map.rs: add_lump called on one MapData, again and again *)

\* a lump of `len` bytes holding the whole vertex records `verts`
VertexBytes(len, verts) == Bytes(len, verts, FALSE, 0, <<>>)

\* the VERTEXES lumps offered: no record at all, one record, two records and a
\* partial one, three records
VertexLumps ==
    {EmptyBytes,
     VertexBytes(2, <<>>),
     VertexBytes(4, <<Vertex(4, -7)>>),
     VertexBytes(10, <<Vertex(-1, 2), Vertex(6, 1)>>),
     VertexBytes(12, <<Vertex(0, 0), Vertex(10, 5), Vertex(-3, 8)>>),
     VertexBytes(12, <<Vertex(9, 9), Vertex(-5, -5), Vertex(1, 1)>>)}

\* the lump names add_lump is called with; DEMO1 and TEXTURE are no map lumps
AddLumpNames == {N_VERTEXES, N_LINEDEFS, N_THINGS, N_REJECT, N_DEMO1, N_TEXTURE}

AddLumpBytes(name) == IF name = N_VERTEXES THEN VertexLumps ELSE {EmptyBytes, Plain(28)}

NoBytes == [none |-> TRUE]

AddLumpCalled(name, bytes) == [fn |-> "add_lump", name |-> name, bytes |-> bytes]

InitMap ==
    /\ md = MapDataNew(N_E1M1)
    /\ accepted = NoBytes
    /\ game = Unused
    /\ call = NotCalled
    /\ ret = NotCalled
    /\ NoLoad /\ NoLevel

\* one call of add_lump; a call that panics ends the run
AddLumpCall ==
    /\ ret.kind # "Panic"
    /\ \E name \in AddLumpNames :
         \E bytes \in AddLumpBytes(name) :
            LET r == AddLump(md, name, bytes) IN
            /\ call' = AddLumpCalled(name, bytes)
            /\ md' = r.map
            /\ IF r.panicked
               THEN /\ ret' = Panic("checked_slice")
                    /\ UNCHANGED accepted
               ELSE /\ ret' = Returned(r.still_parsing)
                    /\ accepted' = IF name = N_VERTEXES THEN bytes ELSE accepted
    /\ UNCHANGED <<wadVars, levelVars, game>>

NextMap == AddLumpCall

SpecMap == InitMap /\ [][NextMap]_vars

\* the box of a map
Box(map) == [min |-> map.bound_min, max |-> map.bound_max]

\* the vertices of a lump
VerticesOf(bytes) == {bytes.verts[i] : i \in 1..Len(bytes.verts)}

\* the box is the componentwise minimum and maximum of the vertices
IsBoxOf(box, vs) ==
    /\ \A v \in vs : box.min.x <= v.x /\ v.x <= box.max.x /\ box.min.y <= v.y /\ v.y <= box.max.y
    /\ \E v \in vs : v.x = box.min.x
    /\ \E v \in vs : v.y = box.min.y
    /\ \E v \in vs : v.x = box.max.x
    /\ \E v \in vs : v.y = box.max.y

ExampleVertexes == VertexBytes(12, <<Vertex(0, 0), Vertex(10, 5), Vertex(-3, 8)>>)

C12_Step ==
    (ret'.kind = "Returned") =>
        /\ accepted' # NoBytes => IsBoxOf(Box(md'), VerticesOf(accepted'))
        /\ accepted' = ExampleVertexes =>
               Box(md') = [min |-> Vertex(-3, 0), max |-> Vertex(10, 8)]
        /\ call'.name # N_VERTEXES => Box(md') = Box(md)
        /\ ret'.value = (call'.name \in MapLumpNames)

\* C12: after every add_lump call that returned, the bounding box is the
\* componentwise minimum and maximum over the vertices of the VERTEXES lump taken
\* last, with every such vertex inside it ((0,0),(10,5),(-3,8) give (-3,0) and
\* (10,8)); taking another lump, or refusing an unknown name, leaves the box as
\* it was.
C12_BoundingBox == [][C12_Step]_vars

\* the example lump was taken, other lumps were taken or refused after it, and
\* the box is the example's
C12_Witness ==
    /\ accepted = ExampleVertexes
    /\ ret = Returned(FALSE)
    /\ md.lumps[IDX_LINEDEFS].len > 0
    /\ Box(md) = [min |-> Vertex(-3, 0), max |-> Vertex(10, 8)]

-----------------------------------------------------------------------------
(* map.rs: check_line_of_sight *)

\* the most sectors a modelled level has, and the longest REJECT lump in bytes
MaxSectors == 3
MaxReject == 2

SECTOR_SIZE == 26

\* Bytes whose content the code reads byte by byte
DataBytes(data) ==
    [len |-> Len(data), verts |-> <<>>, graphic |-> FALSE, cnt |-> 0, tex |-> <<>>,
     data |-> data]

\* a & b on u8
RECURSIVE BitAnd(_, _)
BitAnd(a, b) ==
    IF a = 0 \/ b = 0 THEN 0
    ELSE (a % 2) * (b % 2) + 2 * BitAnd(a \div 2, b \div 2)

\* 1 << n
RECURSIVE Shl1(_)
Shl1(n) == IF n = 0 THEN 1 ELSE 2 * Shl1(n - 1)

\* mutant: player and monster change places
CheckLineOfSight_Swapped(map, player_sect_idx, monster_sect_idx) ==
    LET sector_count == map.lumps[IDX_SECTORS].len \div SECTOR_SIZE
        bit_idx == player_sect_idx * sector_count + monster_sect_idx
        byte_idx == bit_idx \div 8
        bit_mask == Shl1(bit_idx % 8)
        reject == map.lumps[IDX_REJECT]
    IN IF byte_idx >= reject.len THEN Panic("index out of bounds")
       ELSE Returned(BitAnd(reject.data[byte_idx + 1], bit_mask) = 0)

\* check_line_of_sight; indexing REJECT beyond its end panics
CheckLineOfSight(map, player_sect_idx, monster_sect_idx) ==
    LET sector_count == map.lumps[IDX_SECTORS].len \div SECTOR_SIZE
        pli == player_sect_idx
        moi == monster_sect_idx
        bit_idx == moi * sector_count + pli
        byte_idx == bit_idx \div 8
        bit_mask == Shl1(bit_idx % 8)
        reject == map.lumps[IDX_REJECT]
    IN IF byte_idx >= reject.len THEN Panic("index out of bounds")
       ELSE Returned(BitAnd(reject.data[byte_idx + 1], bit_mask) = 0)

\* the byte values of the REJECT lumps
RejectByteValues == {0, 1, 16, 128, 170, 255}

RejectLumps ==
    {DataBytes(d) : d \in UNION {[1..n -> RejectByteValues] : n \in 0..MaxReject}}

\* SECTORS lumps of whole records, and one with a partial record at its end
SectorLumps == {Plain(n * SECTOR_SIZE) : n \in 0..MaxSectors} \cup {Plain(2 * SECTOR_SIZE + 8)}

SectorIndices == 0..MaxSectors

CheckLineOfSightCalled(pl, mo) ==
    [fn |-> "check_line_of_sight", player_sect_idx |-> pl, monster_sect_idx |-> mo]

InitReject ==
    /\ \E sectors \in SectorLumps, reject \in RejectLumps :
          md = [MapDataNew(N_E1M1) EXCEPT !.lumps[IDX_SECTORS] = sectors,
                                          !.lumps[IDX_REJECT] = reject]
    /\ accepted = NoBytes
    /\ game = Unused
    /\ \E pl \in SectorIndices, mo \in SectorIndices : call = CheckLineOfSightCalled(pl, mo)
    /\ ret = NotCalled
    /\ NoLoad /\ NoLevel

CheckLineOfSightCall ==
    /\ ret = NotCalled
    /\ ret' = CheckLineOfSight(md, call.player_sect_idx, call.monster_sect_idx)
    /\ UNCHANGED <<wadVars, levelVars, storeVars, call>>

NextReject == CheckLineOfSightCall

SpecReject == InitReject /\ [][NextReject]_vars

\* bit k of a lump: bit k mod 8, the least significant first, of byte k div 8
BitOf(data, k) == (data[(k \div 8) + 1] \div (2 ^ (k % 8))) % 2

BitCount(data) == 8 * Len(data)

\* the lump with bit k flipped and all others as they are
Flip(data, k) ==
    [data EXCEPT ![(k \div 8) + 1] =
        IF BitOf(data, k) = 1 THEN @ - 2 ^ (k % 8) ELSE @ + 2 ^ (k % 8)]

SectorCount == md.lumps[IDX_SECTORS].len \div SECTOR_SIZE

\* the bit the claim names
RejectBit == call.monster_sect_idx * SectorCount + call.player_sect_idx

RejectData == md.lumps[IDX_REJECT].data

WithReject(data) == [md EXCEPT !.lumps[IDX_REJECT] = DataBytes(data)]

LineOfSightAsked == call.fn = "check_line_of_sight" /\ ret.kind # "NotCalled"

\* C13: check_line_of_sight(player, monster) returns true exactly when bit
\* monster*sectorCount + player of REJECT is clear and false when it is set;
\* flipping that bit flips what it returns, flipping any other bit does not.
C13_RejectBit ==
    (LineOfSightAsked /\ RejectBit < BitCount(RejectData)) =>
        /\ ret = Returned(BitOf(RejectData, RejectBit) = 0)
        /\ \A k \in 0..(BitCount(RejectData) - 1) :
              LET flipped == CheckLineOfSight(WithReject(Flip(RejectData, k)),
                                              call.player_sect_idx, call.monster_sect_idx)
              IN flipped = Returned(IF k = RejectBit THEN ~ret.value ELSE ret.value)

\* the monster's sector is not the player's, the bit is in the second byte and set
C13_Witness ==
    /\ LineOfSightAsked
    /\ call.monster_sect_idx = 3
    /\ call.player_sect_idx = 1
    /\ SectorCount = 3
    /\ RejectBit < BitCount(RejectData)
    /\ ret = Returned(FALSE)

-----------------------------------------------------------------------------
(* utils.rs, map_items.rs, things.rs, map.rs: the record decoders *)

\* the most records a modelled lump_buf holds
MaxRecords == 2

THING_SIZE == 10
LINEDEF_SIZE == 14
SIDEDEF_SIZE == 30
SEG_SIZE == 12
SSECTOR_SIZE == 4
NODE_SIZE == 28

\* a usize index: `low`, or, when `top` holds, low plus half the range of usize
\* (2^63 + low where usize has 64 bits)
Index(top, low) == [top |-> top, low |-> low]

\* buf_to_u16, buf_to_i16 of the two bytes at an offset
BufToU16(buf, at) == buf[at + 1] + 256 * buf[at + 2]

BufToI16(buf, at) ==
    LET u == BufToU16(buf, at) IN
    IF u > I16_MAX THEN u - (U16_MAX + 1) ELSE u

\* checked_slice: the bytes of the item, or a panic.  Every item size is even, so
\* (half the range of usize + low) * item_size overflows, and wraps to
\* low * item_size where overflow is not checked
CheckedSlice(buf, idx, item_size, overflow_checks) ==
    IF idx.top /\ overflow_checks THEN Panic("attempt to multiply with overflow")
    ELSE LET start == idx.low * item_size
             end == start + item_size
         IN IF end <= Len(buf) THEN Returned(SubSeq(buf, start + 1, end))
            ELSE Panic("assertion failed: end <= buf.len()")

\* Angle::from_degrees
FromDegrees(deg) == FromRadians(deg * UNITS_PER_DEGREE)

\* Angle::from_segment_angle: seg_angle * PI / 32768
FromSegmentAngle(seg_angle) == FromRadians(seg_angle * (PI \div (I16_MAX + 1)))

\* mutant: the two coordinates are read from the same bytes
VertexFromLump_SameBytes(lump_buf, idx, overflow_checks) ==
    LET bytes == CheckedSlice(lump_buf, idx, VERTEX_SIZE, overflow_checks) IN
    IF bytes.kind = "Panic" THEN bytes
    ELSE Returned(Vertex(BufToI16(bytes.value, 0), BufToI16(bytes.value, 0)))

\* Vertex::from_lump
VertexFromLump(lump_buf, idx, overflow_checks) ==
    LET bytes == CheckedSlice(lump_buf, idx, VERTEX_SIZE, overflow_checks) IN
    IF bytes.kind = "Panic" THEN bytes
    ELSE Returned(Vertex(BufToI16(bytes.value, 0), BufToI16(bytes.value, 2)))

\* LineDef::from_lump
LineDefFromLump(lump_buf, idx, vertex_lump, overflow_checks) ==
    LET bytes == CheckedSlice(lump_buf, idx, LINEDEF_SIZE, overflow_checks) IN
    IF bytes.kind = "Panic" THEN bytes
    ELSE LET b == bytes.value
             v1 == VertexFromLump(vertex_lump, Index(FALSE, BufToU16(b, 0)), overflow_checks)
             v2 == VertexFromLump(vertex_lump, Index(FALSE, BufToU16(b, 2)), overflow_checks)
         IN IF v1.kind = "Panic" THEN v1
            ELSE IF v2.kind = "Panic" THEN v2
            ELSE Returned([v1 |-> v1.value, v2 |-> v2.value,
                           flags |-> BufToU16(b, 4),
                           special_type |-> BufToU16(b, 6),
                           sector_tag |-> BufToU16(b, 8),
                           right_side_idx |-> BufToU16(b, 10),
                           left_side_idx |-> BufToU16(b, 12)])

\* SideDef::from_lump
SideDefFromLump(lump_buf, idx, overflow_checks) ==
    LET bytes == CheckedSlice(lump_buf, idx, SIDEDEF_SIZE, overflow_checks) IN
    IF bytes.kind = "Panic" THEN bytes
    ELSE LET b == bytes.value IN
         Returned([x_offset |-> BufToI16(b, 0),
                   y_offset |-> BufToI16(b, 2),
                   upper_texture_key |-> HashLumpName(SubSeq(b, 5, 12)),
                   lower_texture_key |-> HashLumpName(SubSeq(b, 13, 20)),
                   middle_texture_key |-> HashLumpName(SubSeq(b, 21, 28)),
                   sector_idx |-> BufToU16(b, 28)])

\* Sector::from_lump
SectorFromLump(lump_buf, idx, overflow_checks) ==
    LET bytes == CheckedSlice(lump_buf, idx, SECTOR_SIZE, overflow_checks) IN
    IF bytes.kind = "Panic" THEN bytes
    ELSE LET b == bytes.value IN
         Returned([floor_height |-> BufToI16(b, 0),
                   ceiling_height |-> BufToI16(b, 2),
                   floor_flat_key |-> HashLumpName(SubSeq(b, 5, 12)),
                   ceiling_flat_key |-> HashLumpName(SubSeq(b, 13, 20)),
                   light_level |-> BufToU16(b, 20),
                   special_type |-> BufToU16(b, 22),
                   tag_nr |-> BufToU16(b, 24)])

\* BspNode::from_lump
BspNodeFromLump(lump_buf, idx, overflow_checks) ==
    LET bytes == CheckedSlice(lump_buf, idx, NODE_SIZE, overflow_checks) IN
    IF bytes.kind = "Panic" THEN bytes
    ELSE LET b == bytes.value
             vect == [i \in 0..11 |-> BufToI16(b, 2 * i)]
         IN Returned(BspNode(Vertex(vect[0], vect[1]), Vertex(vect[2], vect[3]),
                             BufToU16(b, 24), BufToU16(b, 26)))

\* Seg::from_lump, read from the bytes
SegFromLumpBytes(lump_buf, idx, vertex_lump, overflow_checks) ==
    LET bytes == CheckedSlice(lump_buf, idx, SEG_SIZE, overflow_checks) IN
    IF bytes.kind = "Panic" THEN bytes
    ELSE LET b == bytes.value
             start == VertexFromLump(vertex_lump, Index(FALSE, BufToU16(b, 0)), overflow_checks)
             end == VertexFromLump(vertex_lump, Index(FALSE, BufToU16(b, 2)), overflow_checks)
         IN IF start.kind = "Panic" THEN start
            ELSE IF end.kind = "Panic" THEN end
            ELSE Returned([start |-> start.value, end |-> end.value,
                           angle |-> FromSegmentAngle(BufToU16(b, 4)),
                           linedef_idx |-> BufToU16(b, 6),
                           direction_same |-> (0 = BufToU16(b, 8)),
                           offset |-> BufToI16(b, 10)])

\* MapData::sub_sector, read from the bytes
SubSectorBytes(map, idx, overflow_checks) ==
    LET bytes == CheckedSlice(map.lumps[IDX_SSECTORS].data, idx, SSECTOR_SIZE, overflow_checks) IN
    IF bytes.kind = "Panic" THEN bytes
    ELSE LET seg_count == BufToU16(bytes.value, 0)
             first_seg_idx == BufToU16(bytes.value, 2)
             got == [i \in 1..seg_count |->
                        SegFromLumpBytes(map.lumps[IDX_SEGS].data,
                                         Index(FALSE, first_seg_idx + i - 1),
                                         map.lumps[IDX_VERTEXES].data, overflow_checks)]
         IN IF \E i \in 1..seg_count : got[i].kind = "Panic"
            THEN Panic("assertion failed: end <= buf.len()")
            ELSE Returned([i \in 1..seg_count |-> got[i].value])

\* Thing::from
ThingFrom(lump_data) ==
    IF Len(lump_data) < THING_SIZE THEN Panic("assertion failed: lump_data.len() >= 10")
    ELSE Returned([pos |-> Vertex(BufToI16(lump_data, 0), BufToI16(lump_data, 2)),
                   angle |-> FromDegrees(BufToI16(lump_data, 4)),
                   type_code |-> BufToU16(lump_data, 6),
                   flags |-> BufToU16(lump_data, 8)])

\* MapData::thing
ThingAt(map, idx, overflow_checks) ==
    LET bytes == CheckedSlice(map.lumps[IDX_THINGS].data, idx, THING_SIZE, overflow_checks) IN
    IF bytes.kind = "Panic" THEN bytes ELSE ThingFrom(bytes.value)

Decoders == {"vertex", "linedef", "sidedef", "sector", "bsp_node", "sub_sector", "seg", "thing"}

\* the accessors of MapData, and Seg::from_lump on its lumps
Decode(map, fn, idx, overflow_checks) ==
    CASE fn = "vertex" -> VertexFromLump(map.lumps[IDX_VERTEXES].data, idx, overflow_checks)
      [] fn = "linedef" -> LineDefFromLump(map.lumps[IDX_LINEDEFS].data, idx,
                                           map.lumps[IDX_VERTEXES].data, overflow_checks)
      [] fn = "sidedef" -> SideDefFromLump(map.lumps[IDX_SIDEDEFS].data, idx, overflow_checks)
      [] fn = "sector" -> SectorFromLump(map.lumps[IDX_SECTORS].data, idx, overflow_checks)
      [] fn = "bsp_node" -> BspNodeFromLump(map.lumps[IDX_NODES].data, idx, overflow_checks)
      [] fn = "sub_sector" -> SubSectorBytes(map, idx, overflow_checks)
      [] fn = "seg" -> SegFromLumpBytes(map.lumps[IDX_SEGS].data, idx,
                                        map.lumps[IDX_VERTEXES].data, overflow_checks)
      [] fn = "thing" -> ThingAt(map, idx, overflow_checks)

(* The lumps decoded: record i of each lump_buf, and the bytes a WAD holds for it *)

EncU16(v) == <<v % 256, v \div 256>>
EncI16(v) == EncU16(IF v < 0 THEN v + U16_MAX + 1 ELSE v)

VertexRec(i) == Vertex(300 * i - 3, 258 - 400 * i)

\* a wall from vertex i to vertex 0
LineDefRec(i) ==
    [v1_idx |-> i, v2_idx |-> 0, flags |-> 256 + i, special_type |-> U16_MAX - i,
     sector_tag |-> 1000 * i, right_side_idx |-> i, left_side_idx |-> U16_MAX]

\* wall<i>, -, BRICK123
SideDefRec(i) ==
    [x_offset |-> -1 - i, y_offset |-> 300 + i,
     upper |-> Pad8(<<119, 97, 108, 108, 48 + i>>),
     lower |-> Pad8(<<45>>),
     middle |-> <<66, 82, 73, 67, 75, 49, 50, 51>>,
     sector_idx |-> 258 + i]

\* FLOOR<i>, f_sky1
SectorRec(i) ==
    [floor_height |-> -8 - 8 * i, ceiling_height |-> 128 + i,
     floor_flat |-> Pad8(<<70, 76, 79, 79, 82, 48 + i>>),
     ceiling_flat |-> Pad8(<<102, 95, 115, 107, 121, 49>>),
     light_level |-> 255 - i, special_type |-> 9, tag_nr |-> 600 + i]

NodeRec(i) ==
    [vect |-> <<-100 + i, 200 + i, 3, -4 - i, 10, 11, 12, 13, 14, 15, 16, 17>>,
     right_child |-> SSECTOR_FLAG + i, left_child |-> i + 1]

\* sub-sector i has the segs 0..i
SSectorRecOf(i) == SSectorRecord(i + 1, 0)

\* a seg from vertex i to vertex 0
SegRec(i) ==
    [start_idx |-> i, end_idx |-> 0, seg_angle |-> 16384 * i + 1, linedef_idx |-> 700 + i,
     direction |-> i % 2, offset |-> -5 * i]

ThingRec(i) ==
    [x |-> 1000 + i, y |-> -1000 - i, angle_deg |-> 90 * i - 90, type_code |-> 3004 + i,
     flags |-> 7]

RECURSIVE Concat(_)
Concat(seqs) == IF seqs = <<>> THEN <<>> ELSE Head(seqs) \o Concat(Tail(seqs))

EncVertex(v) == EncI16(v.x) \o EncI16(v.y)

EncLineDef(l) ==
    EncU16(l.v1_idx) \o EncU16(l.v2_idx) \o EncU16(l.flags) \o EncU16(l.special_type)
    \o EncU16(l.sector_tag) \o EncU16(l.right_side_idx) \o EncU16(l.left_side_idx)

EncSideDef(sd) ==
    EncI16(sd.x_offset) \o EncI16(sd.y_offset) \o sd.upper \o sd.lower \o sd.middle
    \o EncU16(sd.sector_idx)

EncSector(sc) ==
    EncI16(sc.floor_height) \o EncI16(sc.ceiling_height) \o sc.floor_flat \o sc.ceiling_flat
    \o EncU16(sc.light_level) \o EncU16(sc.special_type) \o EncU16(sc.tag_nr)

EncNode(nd) ==
    Concat([i \in 1..12 |-> EncI16(nd.vect[i])]) \o EncU16(nd.right_child)
    \o EncU16(nd.left_child)

EncSSector(ss) == EncU16(ss.seg_count) \o EncU16(ss.first_seg_idx)

EncSeg(sg) ==
    EncU16(sg.start_idx) \o EncU16(sg.end_idx) \o EncU16(sg.seg_angle)
    \o EncU16(sg.linedef_idx) \o EncU16(sg.direction) \o EncI16(sg.offset)

EncThing(t) ==
    EncI16(t.x) \o EncI16(t.y) \o EncI16(t.angle_deg) \o EncU16(t.type_code)
    \o EncU16(t.flags)

\* the bytes of record i of a lump_buf
EncRec(slot, i) ==
    CASE slot = IDX_VERTEXES -> EncVertex(VertexRec(i))
      [] slot = IDX_LINEDEFS -> EncLineDef(LineDefRec(i))
      [] slot = IDX_SIDEDEFS -> EncSideDef(SideDefRec(i))
      [] slot = IDX_SECTORS -> EncSector(SectorRec(i))
      [] slot = IDX_NODES -> EncNode(NodeRec(i))
      [] slot = IDX_SSECTORS -> EncSSector(SSectorRecOf(i))
      [] slot = IDX_SEGS -> EncSeg(SegRec(i))
      [] slot = IDX_THINGS -> EncThing(ThingRec(i))
      [] OTHER -> <<>>

\* a lump_buf of n whole records, and two bytes of a further one when `partial`
RecordLump(slot, n, partial) ==
    DataBytes(Concat([i \in 1..n |-> EncRec(slot, i - 1)])
              \o (IF partial THEN <<7, 7>> ELSE <<>>))

\* a level whose VERTEXES lump_buf has nv records and whose other lumps have n
RecordMap(n, nv, partial) ==
    [MapDataNew(N_E1M1) EXCEPT
        !.lumps = [slot \in 0..(LUMP_CNT - 1) |->
                      RecordLump(slot, IF slot = IDX_VERTEXES THEN nv ELSE n, partial)]]

\* the indices asked for: small ones, and ones in the upper half of usize
Indices == {Index(top, low) : top \in BOOLEAN, low \in 0..(MaxRecords + 1)}

DecodeCalled(fn, idx) == [fn |-> fn, idx |-> idx]

InitDecode ==
    /\ \E n \in 0..MaxRecords, nv \in 0..MaxRecords, partial \in BOOLEAN :
          md = RecordMap(n, nv, partial)
    /\ accepted = NoBytes
    /\ game = Unused
    /\ \E fn \in Decoders, idx \in Indices : call = DecodeCalled(fn, idx)
    /\ ret = NotCalled
    /\ NoLoad /\ NoLevel

DecodeCall ==
    /\ ret = NotCalled
    /\ \E overflow_checks \in BOOLEAN : ret' = Decode(md, call.fn, call.idx, overflow_checks)
    /\ UNCHANGED <<wadVars, levelVars, storeVars, call>>

NextDecode == DecodeCall

SpecDecode == InitDecode /\ [][NextDecode]_vars

\* the lump a decoder reads and the size of its records
SlotOfDecoder(fn) ==
    CASE fn = "vertex" -> IDX_VERTEXES
      [] fn = "linedef" -> IDX_LINEDEFS
      [] fn = "sidedef" -> IDX_SIDEDEFS
      [] fn = "sector" -> IDX_SECTORS
      [] fn = "bsp_node" -> IDX_NODES
      [] fn = "sub_sector" -> IDX_SSECTORS
      [] fn = "seg" -> IDX_SEGS
      [] fn = "thing" -> IDX_THINGS

RecordSize(fn) ==
    CASE fn = "vertex" -> 4
      [] fn = "linedef" -> 14
      [] fn = "sidedef" -> 30
      [] fn = "sector" -> 26
      [] fn = "bsp_node" -> 28
      [] fn = "sub_sector" -> 4
      [] fn = "seg" -> 12
      [] fn = "thing" -> 10

\* (i+1)*size <= lump length, for a small i: an index in the upper half of usize
\* is beyond every lump
Addressed(fn, i) == (i + 1) * RecordSize(fn) <= md.lumps[SlotOfDecoder(fn)].len

SegRefsAddressed(i) ==
    Addressed("seg", i) /\ Addressed("vertex", SegRec(i).start_idx)
    /\ Addressed("vertex", SegRec(i).end_idx)

\* the record and every record it refers to lie inside their lumps
AllAddressed(fn, idx) ==
    /\ ~idx.top
    /\ Addressed(fn, idx.low)
    /\ fn = "linedef" =>
          /\ Addressed("vertex", LineDefRec(idx.low).v1_idx)
          /\ Addressed("vertex", LineDefRec(idx.low).v2_idx)
    /\ fn = "seg" => SegRefsAddressed(idx.low)
    /\ fn = "sub_sector" => \A j \in 0..idx.low : SegRefsAddressed(j)

ExpectedSeg(i) ==
    [start |-> VertexRec(i), end |-> VertexRec(0), angle |-> Degrees(90 * i) + 45,
     linedef_idx |-> 700 + i, direction_same |-> (i % 2 = 0), offset |-> -5 * i]

\* what the bytes of record i say
ExpectedRecord(fn, i) ==
    CASE fn = "vertex" -> VertexRec(i)
      [] fn = "linedef" ->
            [v1 |-> VertexRec(i), v2 |-> VertexRec(0), flags |-> 256 + i,
             special_type |-> 65535 - i, sector_tag |-> 1000 * i, right_side_idx |-> i,
             left_side_idx |-> 65535]
      [] fn = "sidedef" ->
            [x_offset |-> -1 - i, y_offset |-> 300 + i,
             upper_texture_key |-> <<87, 65, 76, 76, 48 + i>>,
             lower_texture_key |-> <<45>>,
             middle_texture_key |-> <<66, 82, 73, 67, 75, 49, 50, 51>>,
             sector_idx |-> 258 + i]
      [] fn = "sector" ->
            [floor_height |-> -8 - 8 * i, ceiling_height |-> 128 + i,
             floor_flat_key |-> <<70, 76, 79, 79, 82, 48 + i>>,
             ceiling_flat_key |-> <<70, 95, 83, 75, 89, 49>>,
             light_level |-> 255 - i, special_type |-> 9, tag_nr |-> 600 + i]
      [] fn = "bsp_node" ->
            [vect_orig |-> Vertex(i - 100, 200 + i), vect_dir |-> Vertex(3, -4 - i),
             right_child |-> 32768 + i, left_child |-> i + 1]
      [] fn = "sub_sector" -> [j \in 1..(i + 1) |-> ExpectedSeg(j - 1)]
      [] fn = "seg" -> ExpectedSeg(i)
      [] fn = "thing" ->
            [pos |-> Vertex(1000 + i, -1000 - i), angle |-> Degrees((90 * i + 270) % 360),
             type_code |-> 3004 + i, flags |-> 7]

DecoderAsked == call.fn \in Decoders /\ ret.kind # "NotCalled"

DecodedOrFatal ==
    IF AllAddressed(call.fn, call.idx)
    THEN ret = Returned(ExpectedRecord(call.fn, call.idx.low))
    ELSE ret.kind = "Panic"

DecodersBelowOverflow == (DecoderAsked /\ ~call.idx.top) => DecodedOrFatal

\* a sub-sector of two segs was decoded; an index at a partial record was fatal
DecodedSubSector ==
    /\ DecoderAsked /\ call.fn = "sub_sector" /\ call.idx = Index(FALSE, 1)
    /\ ret.kind = "Returned" /\ Len(ret.value) = 2

PartialRecordFatal ==
    /\ DecoderAsked /\ call.fn = "thing" /\ call.idx = Index(FALSE, 2)
    /\ md.lumps[IDX_THINGS].len = 2 * THING_SIZE + 2
    /\ ret.kind = "Panic"

-----------------------------------------------------------------------------
(* angle.rs on f64 values.  An f64 near the angles is n units and e parts, a  *)
(* part being so far below the unit (1e-30 rad, say) that a sum with a value  *)
(* of one unit or more rounds it away; of the values that are not finite the  *)
(* kind is kept.                                                              *)

\* how many calls are made one after the other
MaxCalls == 2

F64(n, e) == [kind |-> "finite", n |-> n, e |-> e]
NaN == [kind |-> "nan", n |-> 0, e |-> 0]
Inf == [kind |-> "inf", n |-> 0, e |-> 0]

\* rounding to the nearest f64: the parts survive only where there are no units
Round(n, e) == IF n = 0 THEN F64(0, e) ELSE F64(n, 0)

\* f64 +
FAdd(x, y) ==
    IF x.kind = "nan" \/ y.kind = "nan" THEN NaN
    ELSE IF x.kind = "inf" \/ y.kind = "inf" THEN Inf
    ELSE Round(x.n + y.n, x.e + y.e)

\* f64 -
FSub(x, y) ==
    IF x.kind = "nan" \/ y.kind = "nan" THEN NaN
    ELSE IF x.kind = "inf" \/ y.kind = "inf" THEN Inf
    ELSE Round(x.n - y.n, x.e - y.e)

\* f64 * by a whole factor
FMul(x, k) == IF x.kind # "finite" THEN x ELSE Round(x.n * k, x.e * k)

\* f64 / by a whole divisor; the quotient is rounded to the unit, towards zero
FDiv(x, k) ==
    IF x.kind # "finite" THEN x
    ELSE IF k = 0 THEN (IF x.n = 0 /\ x.e = 0 THEN NaN ELSE Inf)
    ELSE IF x.n = 0 THEN F64(0, IF k > 0 THEN x.e ELSE -x.e)
    ELSE F64((IF (x.n >= 0) = (k > 0) THEN 1 ELSE -1) * (Abs(x.n) \div Abs(k)), 0)

\* f64 % by a whole number of units: exact, with the sign of the dividend
FRem(x, m) ==
    IF x.kind # "finite" THEN NaN
    ELSE IF x.n = 0 THEN x
    ELSE F64(Rem(x.n, m), 0)

\* f64 >= 0.0, <, ==: every comparison with NaN is false
FGe0(x) == x.kind = "finite" /\ (x.n > 0 \/ (x.n = 0 /\ x.e >= 0))

FLt(x, y) ==
    /\ x.kind = "finite" /\ y.kind = "finite"
    /\ (x.n < y.n \/ (x.n = y.n /\ x.e < y.e))

FEq(x, y) == x.kind = "finite" /\ y.kind = "finite" /\ x.n = y.n /\ x.e = y.e

\* Angle::from_radians
FromRadiansF64(rad) ==
    LET r == FRem(rad, PI2) IN
    IF FGe0(r) THEN r ELSE FAdd(r, F64(PI2, 0))

\* Angle::with_90_deg, Angle::with_180_deg
With90DegF64 == F64(PI \div 2, 0)
With180DegF64 == F64(PI, 0)

\* Angle::from_degrees
FromDegreesF64(deg) == FromRadiansF64(F64(deg * UNITS_PER_DEGREE, 0))

\* mutant: the unit is taken as 1/65536 of a half turn
FromSegmentAngleF64_HalfTurn(seg_angle) ==
    FromRadiansF64(F64(seg_angle * (PI \div (U16_MAX + 1)), 0))

\* Angle::from_segment_angle
FromSegmentAngleF64(seg_angle) == FromRadiansF64(F64(seg_angle * (PI \div (I16_MAX + 1)), 0))

\* Angle::from_vector
FromVectorF64(orig, dir) == FromRadiansF64(F64(Atan2(dir.y - orig.y, dir.x - orig.x), 0))

\* Angle::deg: the degrees and 1/32 of a degree, cut to i32; NaN as i32 is 0
DegF64(a) ==
    IF a.kind # "finite" THEN 0
    ELSE (a.n + UNITS_PER_DEGREE \div 32) \div UNITS_PER_DEGREE

\* impl Add<Self>, Add<f64>, Sub<Self>, Sub<f64>, Neg, Mul<f64>, Div<f64> for Angle
AngleAddF64(a, rhs) == FromRadiansF64(FAdd(a, rhs))
AngleSubF64(a, rhs) == FromRadiansF64(FSub(a, rhs))
AngleNegF64(a) == FromRadiansF64(FAdd(a, F64(PI, 0)))
AngleMulF64(a, rhs) == FromRadiansF64(FMul(a, rhs))
AngleDivF64(a, rhs) == FromRadiansF64(FDiv(a, rhs))

\* the radians passed in: whole turns and parts of them of both signs, values
\* just below a whole degree, and values far below the unit
Radians ==
    {F64(n, 0) : n \in {0, 1, -1, 5000, Degrees(45), -Degrees(45), Degrees(100), PI, -PI,
                        Degrees(359) + 8000, PI2 - 1, PI2, -PI2, PI2 + Degrees(90),
                        -PI2 - Degrees(90)}}
    \cup {F64(0, 1), F64(0, -1)}

\* the segment units passed in
SegmentUnits ==
    (0..3) \cup {16383, 16384, 16385, 32767, 32768, 32769, 49152} \cup (65532..U16_MAX)

DegreeInputs == (-1..360) \cup {-90, -360, 450, 720, I16_MIN, I16_MAX}

VectorPoints == {Vertex(x, y) : x \in -1..1, y \in -1..1}

Factors == {0, 1, 2, 3, -1}
Divisors == {0, 1, 2, -2}

\* the Angle operands
AngleOperands == {FromRadiansF64(r) : r \in {F64(0, 0), F64(0, 1), F64(1, 0),
                                              F64(Degrees(45), 0), F64(PI, 0),
                                              F64(PI2 - 1, 0)}}

NoneCalled == [fn |-> "none", nth |-> 0]

InitAngle ==
    /\ call = NoneCalled
    /\ ret = NotCalled
    /\ NoLoad /\ NoLevel /\ NoStore

MayCall == call.nth < MaxCalls

\* the last call gave an Angle
HasAngle == ret.kind = "Returned" /\ call.fn # "deg"

AngleFrame == UNCHANGED <<wadVars, levelVars, storeVars>>

FromRadiansCall ==
    /\ MayCall
    /\ \E rad \in Radians :
          /\ call' = [fn |-> "from_radians", rad |-> rad, nth |-> call.nth + 1]
          /\ ret' = Returned(FromRadiansF64(rad))
    /\ AngleFrame

FromDegreesCall ==
    /\ MayCall
    /\ \E deg \in DegreeInputs :
          /\ call' = [fn |-> "from_degrees", deg |-> deg, nth |-> call.nth + 1]
          /\ ret' = Returned(FromDegreesF64(deg))
    /\ AngleFrame

FromSegmentAngleCall ==
    /\ MayCall
    /\ \E seg_angle \in SegmentUnits :
          /\ call' = [fn |-> "from_segment_angle", seg_angle |-> seg_angle,
                      nth |-> call.nth + 1]
          /\ ret' = Returned(FromSegmentAngleF64(seg_angle))
    /\ AngleFrame

FromVectorCall ==
    /\ MayCall
    /\ \E orig \in VectorPoints, dir \in VectorPoints :
          /\ call' = [fn |-> "from_vector", orig |-> orig, dir |-> dir, nth |-> call.nth + 1]
          /\ ret' = Returned(FromVectorF64(orig, dir))
    /\ AngleFrame

With90DegCall ==
    /\ MayCall
    /\ call' = [fn |-> "with_90_deg", nth |-> call.nth + 1]
    /\ ret' = Returned(With90DegF64)
    /\ AngleFrame

With180DegCall ==
    /\ MayCall
    /\ call' = [fn |-> "with_180_deg", nth |-> call.nth + 1]
    /\ ret' = Returned(With180DegF64)
    /\ AngleFrame

AddAngleCall ==
    /\ MayCall /\ HasAngle
    /\ \E rhs \in AngleOperands :
          /\ call' = [fn |-> "add_angle", self |-> ret.value, rhs |-> rhs, nth |-> call.nth + 1]
          /\ ret' = Returned(AngleAddF64(ret.value, rhs))
    /\ AngleFrame

AddRealCall ==
    /\ MayCall /\ HasAngle
    /\ \E rhs \in Radians :
          /\ call' = [fn |-> "add_real", self |-> ret.value, rhs |-> rhs, nth |-> call.nth + 1]
          /\ ret' = Returned(AngleAddF64(ret.value, rhs))
    /\ AngleFrame

SubAngleCall ==
    /\ MayCall /\ HasAngle
    /\ \E rhs \in AngleOperands :
          /\ call' = [fn |-> "sub_angle", self |-> ret.value, rhs |-> rhs, nth |-> call.nth + 1]
          /\ ret' = Returned(AngleSubF64(ret.value, rhs))
    /\ AngleFrame

SubRealCall ==
    /\ MayCall /\ HasAngle
    /\ \E rhs \in Radians :
          /\ call' = [fn |-> "sub_real", self |-> ret.value, rhs |-> rhs, nth |-> call.nth + 1]
          /\ ret' = Returned(AngleSubF64(ret.value, rhs))
    /\ AngleFrame

NegCall ==
    /\ MayCall /\ HasAngle
    /\ call' = [fn |-> "neg", self |-> ret.value, nth |-> call.nth + 1]
    /\ ret' = Returned(AngleNegF64(ret.value))
    /\ AngleFrame

MulCall ==
    /\ MayCall /\ HasAngle
    /\ \E rhs \in Factors :
          /\ call' = [fn |-> "mul", self |-> ret.value, rhs |-> rhs, nth |-> call.nth + 1]
          /\ ret' = Returned(AngleMulF64(ret.value, rhs))
    /\ AngleFrame

DivCall ==
    /\ MayCall /\ HasAngle
    /\ \E rhs \in Divisors :
          /\ call' = [fn |-> "div", self |-> ret.value, rhs |-> rhs, nth |-> call.nth + 1]
          /\ ret' = Returned(AngleDivF64(ret.value, rhs))
    /\ AngleFrame

\* deg() of the Angle the last call gave
DegCall ==
    /\ HasAngle
    /\ call' = [fn |-> "deg", self |-> ret.value, nth |-> call.nth]
    /\ ret' = Returned(DegF64(ret.value))
    /\ AngleFrame

NextAngle ==
    \/ FromRadiansCall \/ FromDegreesCall \/ FromSegmentAngleCall \/ FromVectorCall
    \/ With90DegCall \/ With180DegCall
    \/ AddAngleCall \/ AddRealCall \/ SubAngleCall \/ SubRealCall
    \/ NegCall \/ MulCall \/ DivCall \/ DegCall

SpecAngle == InitAngle /\ [][NextAngle]_vars

\* 0 <= r < 2*pi
Normalised(a) == FGe0(a) /\ FLt(a, F64(PI2, 0))

\* C15: every Angle a constructor or an operator gives on finite inputs has a raw
\* value r with 0 <= r < 2*pi.
C15_AlwaysNormalised == HasAngle => Normalised(ret.value)

\* the whole degree nearest to an angle, a full circle being 0 again
NearestDegree(a) == ((a.n + UNITS_PER_DEGREE \div 2) \div UNITS_PER_DEGREE) % 360

\* C16: deg() of an Angle is its value in degrees rounded to the nearest whole
\* degree and lies in 0..359.
C16_DegRounds ==
    (call.fn = "deg" /\ Normalised(call.self)) =>
        /\ ret.value = NearestDegree(call.self)
        /\ ret.value \in 0..359

C17_Step ==
    /\ (call'.fn = "add_real" /\ call'.nth # call.nth /\ call'.rhs = F64(PI2, 0)
        /\ Normalised(call'.self)) => FEq(ret'.value, call'.self)
    /\ (call'.fn = "from_degrees" /\ call'.deg = 0) => ret'.value = F64(0, 0)
    /\ (call.fn = "from_degrees" /\ call.deg \in 0..359 /\ call'.fn = "deg") =>
           ret'.value = call.deg

\* C17: an Angle plus a full turn equals the Angle; from_degrees(0) has raw value
\* 0; from_degrees(d).deg() = d for every d in 0..359.
C17_FullTurnAndRoundTrip == [][C17_Step]_vars

\* the parts of C17 about degrees
DegreesStep ==
    /\ (call'.fn = "from_degrees" /\ call'.deg = 0) => ret'.value = F64(0, 0)
    /\ (call.fn = "from_degrees" /\ call.deg \in 0..359 /\ call'.fn = "deg") =>
           ret'.value = call.deg

DegreeRoundTrip == [][DegreesStep]_vars

\* C18: from_segment_angle gives unit u the angle u*2*pi/65536: unit 0 is
\* from_radians(0), unit 32768 is from_radians(pi), unit 65535 is below 2*pi, and
\* a greater unit gives a greater angle.
C18_SegmentAngles ==
    (call.fn = "from_segment_angle") =>
        /\ ret.value = F64((call.seg_angle * (PI2 \div 256)) \div 256, 0)
        /\ call.seg_angle = 0 => FEq(ret.value, FromRadiansF64(F64(0, 0)))
        /\ call.seg_angle = 32768 => FEq(ret.value, FromRadiansF64(F64(PI, 0)))
        /\ FLt(ret.value, F64(PI2, 0))
        /\ \A v \in SegmentUnits :
              v < call.seg_angle => FLt(FromSegmentAngleF64(v), ret.value)

\* the greatest unit was converted
C18_Witness ==
    /\ call.fn = "from_segment_angle"
    /\ call.seg_angle = 65535
    /\ ret.kind = "Returned"
    /\ ret.value.n > Degrees(359)

-----------------------------------------------------------------------------
(* wad.rs: extract_lump_name and is_map_name, called on their own *)

\* the longest name is_map_name is called with
MaxNameLen == 5

\* the bytes of the name fields: NUL, the characters around the two ends of the
\* printable range, a letter and a byte above ASCII
FieldBytes == {0, 31, 32, 33, 77, 126, 127, 200}

\* what follows the first four bytes of a field
FieldTails == {<<0, 0, 0, 0>>, <<77, 65, 80, 49>>, <<0, 31, 200, 32>>, <<32, 0, 127, 0>>}

NameFieldsOffered ==
    {<<a, b, c, d>> \o t : a \in FieldBytes, b \in FieldBytes, c \in FieldBytes,
                           d \in FieldBytes, t \in FieldTails}

\* E M A P 0 9 / : e
NameChars == {69, 77, 65, 80, 48, 57, 47, 58, 101}

NamesOffered == UNION {[1..n -> NameChars] : n \in 0..MaxNameLen}

InitNames ==
    /\ \/ \E f \in NameFieldsOffered : call = [fn |-> "extract_lump_name", name_bytes |-> f]
       \/ \E n \in NamesOffered : call = [fn |-> "is_map_name", name |-> n]
    /\ ret = NotCalled
    /\ NoLoad /\ NoLevel /\ NoStore

ExtractLumpNameCall ==
    /\ ret = NotCalled
    /\ call.fn = "extract_lump_name"
    /\ LET r == ExtractLumpName(call.name_bytes) IN
       ret' = IF r.ok THEN Returned(r.name) ELSE Err("InvalidLumpName", <<>>)
    /\ UNCHANGED <<wadVars, levelVars, storeVars, call>>

IsMapNameCall ==
    /\ ret = NotCalled
    /\ call.fn = "is_map_name"
    /\ ret' = Returned(IsMapName(call.name))
    /\ UNCHANGED <<wadVars, levelVars, storeVars, call>>

NextNames == ExtractLumpNameCall \/ IsMapNameCall

SpecNames == InitNames /\ [][NextNames]_vars

\* where the first NUL of a field is; past the end if there is none
FirstNul(f) ==
    IF \E i \in 1..Len(f) : f[i] = 0
    THEN CHOOSE i \in 1..Len(f) : f[i] = 0 /\ \A j \in 1..(i - 1) : f[j] # 0
    ELSE Len(f) + 1

\* the bytes before the first NUL
NamePart(f) == SubSeq(f, 1, FirstNul(f) - 1)

\* C19: the name is the bytes of the field before the first NUL; the name is
\* refused when one of them is outside 0x20..0x7E and taken when all are inside,
\* the space 0x20 among them; bytes after the first NUL make no difference.
C19_NameCheck ==
    (call.fn = "extract_lump_name" /\ ret.kind # "NotCalled") =>
        IF \A i \in 1..Len(NamePart(call.name_bytes)) :
               NamePart(call.name_bytes)[i] \in 32..126
        THEN ret = Returned(NamePart(call.name_bytes))
        ELSE ret.kind = "Err"

\* C20: a name is a level marker exactly when it is E<digit>M<digit> or
\* MAP<digit><digit>; no other name is.
C20_LevelMarker ==
    (call.fn = "is_map_name" /\ ret.kind # "NotCalled") =>
        ret = Returned(call.name \in LevelMarkers)

\* MAP09 was taken as a marker
C20_Witness ==
    /\ call.fn = "is_map_name"
    /\ call.name = <<77, 65, 80, 48, 57>>
    /\ ret = Returned(TRUE)

-----------------------------------------------------------------------------
(* graphics.rs: add_textures, called by parse_wad_lumps on a TEXTUREx lump *)

\* the most textures a lump declares, and the most patches of a texture
MaxTextures == 2
MaxPatches == 2

N_TEXTURE1 == N_TEXTURE \o <<49>>

TextureLens == {0, 8, 9, 12, 13, 34, 50, 51, 52, 62, 63}

TextureOffsets == {8, 12, 22, 23, 30, 40, 100}

TextureEntries ==
    {[offs |-> o, patch_count |-> np, key |-> <<65, 48 + np>>] :
        o \in TextureOffsets, np \in 0..MaxPatches}

\* get_texture: how far into the stored bytes it reads: the header up to the
\* patch count, and six bytes of each patch record
GetTextureReadEnd(patch_cnt) ==
    IF patch_cnt = 0 THEN 22 ELSE 22 + 10 * (patch_cnt - 1) + 6

InitTextures ==
    /\ \E len \in TextureLens, cnt \in 0..MaxTextures :
         \E tex \in [1..cnt -> TextureEntries] :
            call = [fn |-> "add_textures", bytes |-> Bytes(len, <<>>, FALSE, cnt, tex)]
    /\ ret = NotCalled
    /\ lump_idx = 0 /\ is_flats = FALSE
    /\ file = Unused /\ is_iwad = Unused /\ pc = Unused /\ currently_parsing_map = Unused
    /\ wad = Unused /\ result = Unused /\ lump = Unused
    /\ NoLevel /\ NoStore

\* the iteration of parse_wad_lumps that meets the lump TEXTURE1
AddTexturesCall ==
    /\ ret = NotCalled
    /\ ret' = Returned(ParseOtherLump(N_TEXTURE1, call.bytes, WadDataNew))
    /\ UNCHANGED <<wadVars, levelVars, storeVars, call>>

NextTextures == AddTexturesCall

SpecTextures == InitTextures /\ [][NextTextures]_vars

TexturesAsked == call.fn = "add_textures" /\ ret.kind = "Returned"

\* the offset table of the declared count reaches beyond the lump
TableBeyondLump(bytes) == 4 + 4 * bytes.cnt > bytes.len

\* an entry's offset, or its 22+10*patchCount bytes, reach beyond the lump
EntryBeyondLump(bytes, t) ==
    \/ bytes.tex[t].offs > bytes.len
    \/ bytes.tex[t].offs + 22 + 10 * bytes.tex[t].patch_count > bytes.len

LoadAborted(r) == r.pc = "done" /\ r.result.kind = "Err" /\ r.wad = NoWad

\* C21: add_textures fails, and the load with it, whenever the offset table of the
\* declared count, an entry's offset or an entry's 22+10*patchCount bytes reach
\* beyond the lump; when it succeeds every stored texture is a range of exactly
\* 22+10*patchCount bytes inside the lump, and get_texture reads inside it.
C21_TextureBounds ==
    TexturesAsked =>
        LET bytes == call.bytes
            r == ret.value
        IN /\ (TableBeyondLump(bytes) \/ \E t \in 1..bytes.cnt : EntryBeyondLump(bytes, t))
                 => LoadAborted(r)
           /\ ~LoadAborted(r) =>
                 /\ r.pc # "done"
                 /\ \A t \in 1..bytes.cnt :
                       [key |-> bytes.tex[t].key, offs |-> bytes.tex[t].offs,
                        len |-> 22 + 10 * bytes.tex[t].patch_count] \in r.wad.gfx.textures
                 /\ \A st \in r.wad.gfx.textures :
                       /\ st.offs + st.len <= bytes.len
                       /\ \E t \in 1..bytes.cnt :
                             /\ st.offs = bytes.tex[t].offs
                             /\ st.len = 22 + 10 * bytes.tex[t].patch_count
                             /\ GetTextureReadEnd(bytes.tex[t].patch_count) <= st.len

\* two textures were stored, one of them with patches
C21_Witness ==
    /\ TexturesAsked
    /\ ~LoadAborted(ret.value)
    /\ Cardinality(ret.value.wad.gfx.textures) = 2
    /\ \E st \in ret.value.wad.gfx.textures : st.len = 42

-----------------------------------------------------------------------------
(* level.rs: get_line_details, the sides and sectors of a wall *)

LINE_TWO_SIDED == 4

MaxSides == 2

None == [some |-> FALSE]
Some(v) == [some |-> TRUE, value |-> v]

\* a level of MaxSides sidedefs, sidedef i facing sector i, and of n sectors
SidesMap(n) ==
    [MapDataNew(N_E1M1) EXCEPT
        !.lumps = [slot \in 0..(LUMP_CNT - 1) |->
                      CASE slot = IDX_SIDEDEFS ->
                              DataBytes(Concat([i \in 1..MaxSides |->
                                  EncSideDef([SideDefRec(i - 1) EXCEPT !.sector_idx = i - 1])]))
                        [] slot = IDX_SECTORS -> RecordLump(IDX_SECTORS, n, FALSE)
                        [] OTHER -> NoBytes]]

\* get_line_details: the sidedef at an index and the sector it faces, or none
\* of them for the index 0xFFFF
SideAndSector(map, idx) ==
    IF idx = U16_MAX THEN Returned([sidedef |-> None, sector |-> None])
    ELSE LET side == Decode(map, "sidedef", Index(FALSE, idx), TRUE) IN
         IF side.kind = "Panic" THEN side
         ELSE LET sect == Decode(map, "sector", Index(FALSE, side.value.sector_idx), TRUE) IN
              IF sect.kind = "Panic" THEN sect
              ELSE Returned([sidedef |-> Some(side.value), sector |-> Some(sect.value)])

\* get_line_details: the sanity checks on the two sides found
LineDetailsChecked(linedef, left, right) ==
    LET details == [left_sidedef |-> left.sidedef, left_sector |-> left.sector,
                    right_sidedef |-> right.sidedef, right_sector |-> right.sector]
    IN IF ~left.sidedef.some \/ ~left.sector.some THEN Panic("assert")
       ELSE IF BitAnd(linedef.flags, LINE_TWO_SIDED) = 0
       THEN IF right.sidedef.some \/ right.sector.some THEN Panic("assert") ELSE Returned(details)
       ELSE IF ~right.sidedef.some \/ ~right.sector.some THEN Panic("assert")
       ELSE Returned(details)

\* ActiveLevel::get_line_details: the left side and its sector, then the right
\* side and its sector, then the sanity checks
GetLineDetails(map, linedef) ==
    LET left == SideAndSector(map, linedef.left_side_idx)
        right == SideAndSector(map, linedef.right_side_idx)
    IN IF left.kind = "Panic" THEN left
       ELSE IF right.kind = "Panic" THEN right
       ELSE LineDetailsChecked(linedef, left.value, right.value)

\* the walls asked about: with and without the two-sided flag, each side index
\* a sidedef of the level, one beyond its sidedefs, or 0xFFFF
WallFlags == {0, 1, LINE_TWO_SIDED, LINE_TWO_SIDED + 1}
SideIndices == (0..MaxSides) \cup {U16_MAX}

InitLines ==
    /\ \E n \in 1..MaxSides : md = SidesMap(n)
    /\ accepted = NoBytes
    /\ game = Unused
    /\ \E f \in WallFlags, r \in SideIndices, l \in SideIndices :
          call = [fn |-> "get_line_details",
                  linedef |-> [flags |-> f, right_side_idx |-> r, left_side_idx |-> l]]
    /\ ret = NotCalled
    /\ NoLoad /\ NoLevel

GetLineDetailsCall ==
    /\ ret = NotCalled
    /\ ret' = GetLineDetails(md, call.linedef)
    /\ UNCHANGED <<wadVars, levelVars, storeVars, call>>

NextLines == GetLineDetailsCall

SpecLines == InitLines /\ [][NextLines]_vars

LineDetailsAsked == call.fn = "get_line_details" /\ ret.kind # "NotCalled"

TwoSided(linedef) == BitAnd(linedef.flags, LINE_TWO_SIDED) # 0

\* the side index names a sidedef of the level whose sector is in the level
Resolves(map, idx) ==
    /\ idx # U16_MAX
    /\ Decode(map, "sidedef", Index(FALSE, idx), TRUE).kind = "Returned"
    /\ Decode(map, "sector",
              Index(FALSE, Decode(map, "sidedef", Index(FALSE, idx), TRUE).value.sector_idx),
              TRUE).kind = "Returned"

LineDetailsAsCoded ==
    LineDetailsAsked =>
        LET linedef == call.linedef IN
        /\ ret = Panic("assert") <=>
              /\ linedef.left_side_idx = U16_MAX \/ Resolves(md, linedef.left_side_idx)
              /\ linedef.right_side_idx = U16_MAX \/ Resolves(md, linedef.right_side_idx)
              /\ \/ linedef.left_side_idx = U16_MAX
                 \/ TwoSided(linedef) <=> linedef.right_side_idx = U16_MAX
        /\ ret.kind = "Returned" <=>
              /\ Resolves(md, linedef.left_side_idx)
              /\ IF TwoSided(linedef) THEN Resolves(md, linedef.right_side_idx)
                 ELSE linedef.right_side_idx = U16_MAX

\* a wall without the two-sided flag and with its right side alone fails the
\* assertion that a left side is present
OneSidedWallFatal ==
    /\ LineDetailsAsked
    /\ ~TwoSided(call.linedef)
    /\ call.linedef.left_side_idx = U16_MAX
    /\ Resolves(md, call.linedef.right_side_idx)
    /\ ret = Panic("assert")

\* a two-sided wall with both sides is looked up
TwoSidedWallFound ==
    /\ LineDetailsAsked
    /\ TwoSided(call.linedef)
    /\ ret.kind = "Returned"
    /\ ret.value.left_sector.some /\ ret.value.right_sector.some

-----------------------------------------------------------------------------
(* wad.rs: the levels of the directory and the maps stored by load *)

MaxLevels == 2

\* a directory entry of the given name, its lump well inside the file
EntryOf(name, bytes) == [field |-> Pad8(name), size |-> bytes.len, bytes |-> bytes, start |-> 12]

\* the lumps of a level in the order of their slots, without the lump of slot `missing`
LevelLumps(missing) ==
    Concat([i \in 1..LUMP_CNT |->
              IF i - 1 = missing THEN <<>>
              ELSE <<EntryOf(MapLumpOrder[i],
                             IF i - 1 = IDX_VERTEXES
                             THEN Bytes(8, <<Vertex(0, 0), Vertex(3, -2)>>, FALSE, 0, <<>>)
                             ELSE Plain(28))>>])

\* the k-th level of a directory: its marker lump and its lumps, all of them or
\* all but the first or the last
LevelsOffered(k) ==
    {<<EntryOf(MarkerOrder[((k - 1) % 2) + 1], EmptyBytes)>> \o LevelLumps(missing) :
        missing \in {LUMP_CNT, IDX_THINGS, IDX_BLOCKMAP}}

\* up to n levels, one after the other
RECURSIVE LevelRuns(_)
LevelRuns(n) ==
    IF n = 0 THEN {<<>>}
    ELSE LevelRuns(n - 1)
         \cup {run \o lv : run \in LevelRuns(n - 1), lv \in LevelsOffered(n)}

\* what the directory holds before its levels: nothing, the palette and the
\* colour maps, or these and the required glyphs
ResourcesOffered ==
    LET pals == <<EntryOf(N_PLAYPAL, Plain(PALETTE_SIZE)),
                  EntryOf(N_COLORMAP, Plain(COLORMAP_SIZE))>>
    IN {<<>>, pals,
        pals \o [i \in 1..(MaxRequiredGlyph + 1) |->
                    EntryOf(GlyphName(i - 1), Bytes(16, <<>>, TRUE, 0, <<>>))]}

\* the directories loaded: resources, levels, and then either the end of the
\* directory or a lump that is no map lump
Directories ==
    {res \o run \o rest : res \in ResourcesOffered, run \in LevelRuns(MaxLevels),
                          rest \in {<<>>, <<EntryOf(N_DEMO1, Plain(16))>>}}

InitLevels ==
    /\ \E dir \in Directories :
          /\ call = [fn |-> "load", dir |-> dir]
          /\ file = [len |-> BigLen, magic |-> N_IWAD, lump_count |-> Len(dir),
                     dir_offset |-> 12]
    /\ ret = NotCalled
    /\ is_iwad = TRUE
    /\ pc = "load"
    /\ lump_idx = 0
    /\ is_flats = FALSE
    /\ currently_parsing_map = NoMap
    /\ wad = NoWad
    /\ result = NoResult
    /\ lump = NoLump
    /\ NoLevel /\ NoStore

\* parse_wad_lumps: one loop iteration, on the entry of the directory at lump_idx
ParseDirLump ==
    /\ pc = "parse"
    /\ lump_idx < file.lump_count
    /\ LET entry == call.dir[lump_idx + 1] IN
       /\ SetState(ParseOneLump(entry))
       /\ lump' = [idx |-> lump_idx, field |-> entry.field, start |-> entry.start,
                   size |-> entry.size]
    /\ UNCHANGED <<file, is_iwad, levelVars, unitVars>>

NextLevels == LoadHeader \/ ParseDirLump \/ Validate

\* load is one sequential call: the loop of parse_wad_lumps goes on until it
\* returns, and validate_collected_data follows it
SpecLevels == InitLevels /\ [][NextLevels]_vars /\ WF_vars(NextLevels)

\* load has returned and has accounted for the n-th level of the directory: the
\* level is among the stored maps, or load failed with an error other than that
\* of a WAD without maps
Accounted(n) ==
    /\ pc = "done"
    /\ \/ wad # NoWad /\ result = Ok /\ Len(wad.maps) >= n
       \/ wad = NoWad /\ result.kind \in {"Err", "Panic"} /\ result # Err("NoMaps", <<>>)

\* C23: every level whose marker lump was met is in the end stored or reported:
\* a successful load stores all the levels of the directory, a complete level at
\* the end of the directory is stored and counts as a map, and an incomplete
\* final level makes the load fail.
C23_LevelsStored ==
    \A n \in 1..MaxLevels : (pc = "parse" /\ LevelsBegun = n) ~> Accounted(n)

\* the directory is over while a level is under construction
DirectoryEndsInLevel ==
    pc = "parse" /\ lump_idx >= file.lump_count /\ currently_parsing_map # NoMap

\* the last entries of the directory are the ten lumps of a level
FinalLevelComplete == DirectoryEndsInLevel /\ IsComplete(currently_parsing_map)

\* the level at the end of the directory lacks a lump
FinalLevelIncomplete == DirectoryEndsInLevel /\ ~IsComplete(currently_parsing_map)

\* a level of the directory that a lump outside the enumeration ended is stored
\* or reported: what is lost is the level that the end of the directory ends
LevelEndedByLump ==
    [][(pc = "parse" /\ currently_parsing_map # NoMap /\ currently_parsing_map' = NoMap
        /\ lump' # lump)
       => \/ wad' # NoWad /\ Len(wad'.maps) = Len(wad.maps) + 1
          \/ wad' = NoWad /\ result'.kind \in {"Err", "Panic"}]_vars

\* the step after the last lump drops the level under construction, whether it
\* is complete or not, and reports no incomplete level
FinalLevelDropped ==
    [][DirectoryEndsInLevel
       => /\ wad' \in {wad, NoWad}
          /\ result' = ValidateCollectedData(wad)
          /\ result'.kind = "Err" => result'.what # "IncompleteMap"]_vars

\* the levels whose marker lumps appear in the directory
MarkersIn(dir) ==
    Cardinality({i \in DOMAIN dir : IsMapName(ExtractLumpName(dir[i].field).name)})

\* the last eleven entries of the directory are a marker lump and the ten lumps
\* of its level
EndsWithWholeLevel(dir) ==
    /\ Len(dir) > LUMP_CNT
    /\ IsMapName(ExtractLumpName(dir[Len(dir) - LUMP_CNT].field).name)
    /\ \A i \in 1..LUMP_CNT :
          /\ ExtractLumpName(dir[Len(dir) - LUMP_CNT + i].field).name = MapLumpOrder[i]
          /\ dir[Len(dir) - LUMP_CNT + i].size > 0

\* a WAD whose only level is complete and ends the directory is refused as a
\* WAD without maps
FinalLevelNotCounted ==
    /\ pc = "done"
    /\ MarkersIn(call.dir) = 1
    /\ EndsWithWholeLevel(call.dir)
    /\ result = Err("NoMaps", <<>>)

\* a load that succeeded without the last level of the directory
LoadOkWithoutLevel ==
    /\ pc = "done"
    /\ result = Ok
    /\ Len(wad.maps) = MarkersIn(call.dir) - 1

\* a load that succeeded stores every level but the one at the end of the directory
StoredButLast ==
    (pc = "done" /\ result = Ok) =>
        Len(wad.maps) = MarkersIn(call.dir)
                        - (IF IsMapName(ExtractLumpName(lump.field).name)
                              \/ ExtractLumpName(lump.field).name \in MapLumpNames
                           THEN 1 ELSE 0)

-----------------------------------------------------------------------------
(* game.rs: DoomGame, its key flags and its current map *)

KEY_MOVE_FWD == 1
KEY_MOVE_BACK == 2
KEY_STRAFE_LEFT == 4
KEY_STRAFE_RIGHT == 8
KEY_CURS_UP == 16
KEY_CURS_DOWN == 32
KEY_CURS_LEFT == 64
KEY_CURS_RIGHT == 128
KEY_USE == 256
KEY_SHOOT == 512
KEY_ZOOM_IN == 1024
KEY_ZOOM_OUT == 2048

FLAG_AUTOMAP_ON == 1

\* a | b, a & !b and a ^ b on unsigned integers
BitOr(a, b) == a + b - BitAnd(a, b)
BitAndNot(a, b) == a - BitAnd(a, b)
BitXor(a, b) == a + b - 2 * BitAnd(a, b)

\* where the player of a map starts: the first thing of type 1
PlayerStart(idx) == [pos |-> Vertex(100 * idx, -idx), angle |-> Degrees(90)]

\* ActiveLevel::new, as far as DoomGame looks at the level
ActiveLevelNew(idx) ==
    [map |-> idx, player |-> PlayerStart(idx), flags |-> U16_MAX, seen_lines |-> {}]

\* ActiveLevel::toggle_automap
ToggleAutomap(level) == [level EXCEPT !.flags = BitXor(@, FLAG_AUTOMAP_ON)]

\* DoomGame::new, on a WAD of map_count maps; load_map(0) changes nothing
DoomGameNew(map_count) ==
    [map_count |-> map_count, map_idx |-> 0, level |-> ActiveLevelNew(0), key_flags |-> 0]

\* mutant: any index below the map count is loaded anew
LoadMap_AlsoCurrent(g, idx) ==
    IF idx < g.map_count
    THEN [g EXCEPT !.map_idx = idx, !.level = ActiveLevelNew(idx)]
    ELSE g

\* DoomGame::load_map
LoadMap(g, idx) ==
    IF g.map_idx # idx /\ idx < g.map_count
    THEN [g EXCEPT !.map_idx = idx, !.level = ActiveLevelNew(idx)]
    ELSE g

KeyDown(key) == [kind |-> "KeyDown", key |-> key]
KeyUp(key) == [kind |-> "KeyUp", key |-> key]

\* DoomGame::handle_event, the arm of Event::KeyDown
HandleKeyDown(g, key) ==
    CASE key = "Tab" -> [g EXCEPT !.level = ToggleAutomap(@)]
      [] key = "KpPlus" -> [g EXCEPT !.key_flags = BitOr(@, KEY_ZOOM_IN)]
      [] key = "KpMinus" -> [g EXCEPT !.key_flags = BitOr(@, KEY_ZOOM_OUT)]
      [] key = "Up" -> [g EXCEPT !.key_flags = BitOr(@, KEY_CURS_UP)]
      [] key = "Down" -> [g EXCEPT !.key_flags = BitOr(@, KEY_CURS_DOWN)]
      [] key = "Left" -> [g EXCEPT !.key_flags = BitOr(@, KEY_CURS_LEFT)]
      [] key = "Right" -> [g EXCEPT !.key_flags = BitOr(@, KEY_CURS_RIGHT)]
      [] key = "W" -> [g EXCEPT !.key_flags = BitOr(@, KEY_MOVE_FWD)]
      [] key = "S" -> [g EXCEPT !.key_flags = BitOr(@, KEY_MOVE_BACK)]
      [] key = "A" -> [g EXCEPT !.key_flags = BitOr(@, KEY_STRAFE_LEFT)]
      [] key = "D" -> [g EXCEPT !.key_flags = BitOr(@, KEY_STRAFE_RIGHT)]
      [] key \in {"Space", "E"} -> [g EXCEPT !.key_flags = BitOr(@, KEY_USE)]
      [] key \in {"RCtrl", "LAlt"} -> [g EXCEPT !.key_flags = BitOr(@, KEY_SHOOT)]
      [] key = "PageUp" -> IF g.map_idx > 0 THEN LoadMap(g, g.map_idx - 1) ELSE g
      [] key = "PageDown" ->
            IF g.map_idx < g.map_count - 1 THEN LoadMap(g, g.map_idx + 1) ELSE g
      [] OTHER -> g

\* DoomGame::handle_event, the arm of Event::KeyUp
HandleKeyUp(g, key) ==
    CASE key = "KpPlus" -> [g EXCEPT !.key_flags = BitAndNot(@, KEY_ZOOM_IN)]
      [] key = "KpMinus" -> [g EXCEPT !.key_flags = BitAndNot(@, KEY_ZOOM_OUT)]
      [] key = "Up" -> [g EXCEPT !.key_flags = BitAndNot(@, KEY_CURS_UP)]
      [] key = "Down" -> [g EXCEPT !.key_flags = BitAndNot(@, KEY_CURS_DOWN)]
      [] key = "Left" -> [g EXCEPT !.key_flags = BitAndNot(@, KEY_CURS_LEFT)]
      [] key = "Right" -> [g EXCEPT !.key_flags = BitAndNot(@, KEY_CURS_RIGHT)]
      [] key = "W" -> [g EXCEPT !.key_flags = BitAndNot(@, KEY_MOVE_FWD)]
      [] key = "S" -> [g EXCEPT !.key_flags = BitAndNot(@, KEY_MOVE_BACK)]
      [] key = "A" -> [g EXCEPT !.key_flags = BitAndNot(@, KEY_STRAFE_LEFT)]
      [] key = "D" -> [g EXCEPT !.key_flags = BitAndNot(@, KEY_STRAFE_RIGHT)]
      [] key \in {"Space", "E"} -> [g EXCEPT !.key_flags = BitAnd(@, KEY_USE)]
      [] key \in {"RCtrl", "LAlt"} -> [g EXCEPT !.key_flags = BitOr(@, KEY_SHOOT)]
      [] OTHER -> g

\* DoomGame::handle_event; it returns true for every event
HandleEvent(g, event) ==
    CASE event.kind = "KeyDown" -> HandleKeyDown(g, event.key)
      [] event.kind = "KeyUp" -> HandleKeyUp(g, event.key)
      [] OTHER -> g

\* the keys of the events: those handle_event knows and one it does not know
FlagKeys ==
    {"KpPlus", "KpMinus", "Up", "Down", "Left", "Right", "W", "S", "A", "D",
     "Space", "E", "RCtrl", "LAlt"}

Keys == FlagKeys \cup {"Tab", "PageUp", "PageDown", "Q"}

Events == {KeyDown(k) : k \in Keys} \cup {KeyUp(k) : k \in Keys} \cup {[kind |-> "Quit"]}

InitKeys ==
    /\ game = DoomGameNew(1)
    /\ md = Unused /\ accepted = Unused
    /\ call = NotCalled
    /\ ret = NotCalled
    /\ NoLoad /\ NoLevel

\* one event of the graphics loop
HandleEventCall ==
    /\ \E event \in Events :
          /\ call' = [fn |-> "handle_event", event |-> event]
          /\ game' = HandleEvent(game, event)
    /\ ret' = Returned(TRUE)
    /\ UNCHANGED <<wadVars, levelVars, md, accepted>>

NextKeys == HandleEventCall

SpecKeys == InitKeys /\ [][NextKeys]_vars

\* the flag of a key that is held
FlagOf(key) ==
    CASE key = "KpPlus" -> KEY_ZOOM_IN
      [] key = "KpMinus" -> KEY_ZOOM_OUT
      [] key = "Up" -> KEY_CURS_UP
      [] key = "Down" -> KEY_CURS_DOWN
      [] key = "Left" -> KEY_CURS_LEFT
      [] key = "Right" -> KEY_CURS_RIGHT
      [] key = "W" -> KEY_MOVE_FWD
      [] key = "S" -> KEY_MOVE_BACK
      [] key = "A" -> KEY_STRAFE_LEFT
      [] key = "D" -> KEY_STRAFE_RIGHT
      [] key \in {"Space", "E"} -> KEY_USE
      [] key \in {"RCtrl", "LAlt"} -> KEY_SHOOT

\* an event on a key that has a flag is handled
FlagKeyStep(kind) ==
    /\ call'.fn = "handle_event"
    /\ call'.event.kind = kind
    /\ call'.event.key \in FlagKeys

\* C28: a KeyDown of a key that has a flag sets exactly the bit of that flag and
\* a KeyUp clears exactly that bit, every other bit staying as it was; so after
\* the event the flag is set exactly when the event was a KeyDown.
C28_KeyFlags ==
    [][/\ FlagKeyStep("KeyDown") =>
             game'.key_flags = BitOr(game.key_flags, FlagOf(call'.event.key))
       /\ FlagKeyStep("KeyUp") =>
             game'.key_flags = BitAndNot(game.key_flags, FlagOf(call'.event.key))]_vars

\* the keys whose flag is not cleared when they are released
StickyKeys == {"Space", "E", "RCtrl", "LAlt"}

\* the claim holds for every key but those of KEY_USE and KEY_SHOOT
KeyFlagsButUseAndShoot ==
    [][/\ FlagKeyStep("KeyDown") =>
             game'.key_flags = BitOr(game.key_flags, FlagOf(call'.event.key))
       /\ (FlagKeyStep("KeyUp") /\ call'.event.key \notin StickyKeys) =>
             game'.key_flags = BitAndNot(game.key_flags, FlagOf(call'.event.key))]_vars

\* releasing Space or E keeps KEY_USE as it was and clears every other flag;
\* releasing RCtrl or LAlt sets KEY_SHOOT
UseAndShootReleased ==
    [][/\ (FlagKeyStep("KeyUp") /\ call'.event.key \in {"Space", "E"}) =>
             game'.key_flags = BitAnd(game.key_flags, KEY_USE)
       /\ (FlagKeyStep("KeyUp") /\ call'.event.key \in {"RCtrl", "LAlt"}) =>
             BitAnd(game'.key_flags, KEY_SHOOT) = KEY_SHOOT]_vars

\* the shoot key was released and its flag is set
ShootSetByRelease ==
    /\ call # NotCalled
    /\ call.event = KeyUp("RCtrl")
    /\ BitAnd(game.key_flags, KEY_SHOOT) # 0

-----------------------------------------------------------------------------
(* game.rs: the current map of the DoomGame *)

MaxMaps == 3

\* the events that change the map or the level, and those of one held key
MapEvents ==
    {KeyDown(k) : k \in {"PageUp", "PageDown", "Tab", "W"}}
    \cup {KeyUp(k) : k \in {"PageUp", "PageDown", "Tab", "W"}}

InitGame ==
    /\ \E map_count \in 1..MaxMaps : game = DoomGameNew(map_count)
    /\ md = Unused /\ accepted = Unused
    /\ call = NotCalled
    /\ ret = NotCalled
    /\ NoLoad /\ NoLevel

\* one event of the graphics loop, among those that concern the map
MapEventCall ==
    /\ \E event \in MapEvents :
          /\ call' = [fn |-> "handle_event", event |-> event]
          /\ game' = HandleEvent(game, event)
    /\ ret' = Returned(TRUE)
    /\ UNCHANGED <<wadVars, levelVars, md, accepted>>

\* one call of load_map, with an index inside or outside the maps of the WAD
LoadMapCall ==
    /\ \E idx \in 0..(MaxMaps + 1) :
          /\ call' = [fn |-> "load_map", idx |-> idx]
          /\ game' = LoadMap(game, idx)
    /\ ret' = Returned(TRUE)
    /\ UNCHANGED <<wadVars, levelVars, md, accepted>>

NextGame == MapEventCall \/ LoadMapCall

SpecGame == InitGame /\ [][NextGame]_vars

\* the index and the active level are what they were
SameMap == game'.map_idx = game.map_idx /\ game'.level = game.level

\* C29: the current map index is below the map count and the active level is
\* the one built from the map at that index; load_map with an index out of range
\* or with the current index leaves the index and the active level as they were,
\* and so do PageUp at index 0 and PageDown at the last index.
C29_CurrentMap ==
    /\ [](/\ game.map_idx < game.map_count
          /\ game.level.map = game.map_idx
          /\ game.level.player = PlayerStart(game.map_idx))
    /\ [][/\ (/\ call'.fn = "load_map"
              /\ call'.idx >= game.map_count \/ call'.idx = game.map_idx) => SameMap
          /\ (/\ call'.fn = "handle_event"
              /\ call'.event = KeyDown("PageUp")
              /\ game.map_idx = 0) => SameMap
          /\ (/\ call'.fn = "handle_event"
              /\ call'.event = KeyDown("PageDown")
              /\ game.map_idx = game.map_count - 1) => SameMap]_vars

\* load_map was called with the index of the current map, which is not the
\* first one, while the automap of its level was switched on or off since the
\* level was built
C29_Witness ==
    /\ call # NotCalled
    /\ call.fn = "load_map"
    /\ call.idx = game.map_idx
    /\ game.map_idx > 0
    /\ game.level.flags # ActiveLevelNew(game.map_idx).flags

\* PageDown and PageUp move to the next and to the previous map and build its level
PageKeysMove ==
    [][/\ (/\ call'.fn = "handle_event"
           /\ call'.event = KeyDown("PageDown")
           /\ game.map_idx < game.map_count - 1)
          => /\ game'.map_idx = game.map_idx + 1
             /\ game'.level = ActiveLevelNew(game.map_idx + 1)
       /\ (/\ call'.fn = "handle_event"
           /\ call'.event = KeyDown("PageUp")
           /\ game.map_idx > 0)
          => /\ game'.map_idx = game.map_idx - 1
             /\ game'.level = ActiveLevelNew(game.map_idx - 1)]_vars

-----------------------------------------------------------------------------
(* level.rs: the centre and the zoom of the automap.  The f64 accumulators   *)
(* amap_cx and amap_cy are counted in AccumPerUnit-ths of a map unit and the *)
(* times passed in TicksPerSecond-ths of a second, so that every product and *)
(* sum below is exact in f64 as well; the zoom is counted in 160ths.         *)

AccumPerUnit == 32
TicksPerSecond == 1024

AMAP_MOVE_SPEED == 800
DEFAULT_AUTOMAP_ZOOM == 30
AUTOMAP_ZOOM_MIN == 16
AUTOMAP_ZOOM_MAX == 128

\* f64 as i32, for an accumulator within the i32 range: the fraction is dropped
AsI32(acc) == IF acc >= 0 THEN acc \div AccumPerUnit ELSE -((-acc) \div AccumPerUnit)

\* i32 as f64
AsF64(v) == v * AccumPerUnit

\* dx * AMAP_MOVE_SPEED, for dx in ticks
MoveBy(dx) == (dx * AMAP_MOVE_SPEED * AccumPerUnit) \div TicksPerSecond

\* clamp_value: the clamped value, and whether it was clamped
ClampValue(val, min, max) ==
    IF val < min THEN <<min, TRUE>>
    ELSE IF val > max THEN <<max, TRUE>>
    ELSE <<val, FALSE>>

\* mutant: the accumulator keeps what was clamped away
MoveAutomapX_NoReset(level, dx) ==
    LET cx == level.amap_cx + MoveBy(dx)
        c == ClampValue(AsI32(cx), level.map_data.bound_min.x, level.map_data.bound_max.x)
    IN [level EXCEPT !.amap_cx = cx, !.amap_center.x = c[1]]

\* ActiveLevel::move_automap_x
MoveAutomapX(level, dx) ==
    LET cx == level.amap_cx + MoveBy(dx)
        c == ClampValue(AsI32(cx), level.map_data.bound_min.x, level.map_data.bound_max.x)
    IN [level EXCEPT !.amap_cx = IF c[2] THEN AsF64(c[1]) ELSE cx,
                     !.amap_center.x = c[1]]

\* ActiveLevel::move_automap_y
MoveAutomapY(level, dy) ==
    LET cy == level.amap_cy + MoveBy(dy)
        c == ClampValue(AsI32(cy), level.map_data.bound_min.y, level.map_data.bound_max.y)
    IN [level EXCEPT !.amap_cy = IF c[2] THEN AsF64(c[1]) ELSE cy,
                     !.amap_center.y = c[1]]

\* ActiveLevel::zoom_automap, dzoom * AMAP_ZOOM_SPEED given in 160ths; f64::clamp
ZoomAutomap(level, dzoom_speed) ==
    LET new_zoom == level.amap_zoom + dzoom_speed IN
    [level EXCEPT !.amap_zoom = IF new_zoom < AUTOMAP_ZOOM_MIN THEN AUTOMAP_ZOOM_MIN
                                ELSE IF new_zoom > AUTOMAP_ZOOM_MAX THEN AUTOMAP_ZOOM_MAX
                                ELSE new_zoom]

\* ActiveLevel::new, as far as the automap goes: the centre is the player's start
AutomapLevelNew(box, start) ==
    [map_data |-> [bound_min |-> box.min, bound_max |-> box.max],
     amap_center |-> start,
     amap_zoom |-> DEFAULT_AUTOMAP_ZOOM,
     amap_cx |-> AsF64(start.x),
     amap_cy |-> AsF64(start.y)]

\* the bounding boxes of the levels: around the origin, beyond it, and flat
AutomapBoxes ==
    {[min |-> Vertex(-2, 0), max |-> Vertex(1, 1)],
     [min |-> Vertex(1, -3), max |-> Vertex(3, -1)],
     [min |-> Vertex(-1, 2), max |-> Vertex(-1, 2)]}

\* where the player starts: inside the first box, or outside every box
AutomapStarts == {Vertex(0, 1), Vertex(5, -5)}

\* the times passed: a tick or eight of them, one way or the other
MoveTimes == {1, -1, 8, -8}

\* the zoom steps, in 160ths
ZoomSteps == {40, -40, 200, -200}

InitAutomap ==
    /\ \E box \in AutomapBoxes, start \in AutomapStarts : md = AutomapLevelNew(box, start)
    /\ accepted = Unused /\ game = Unused
    /\ call = NotCalled
    /\ ret = NotCalled
    /\ NoLoad /\ NoLevel

MoveAutomapXCall ==
    /\ \E dx \in MoveTimes :
          /\ call' = [fn |-> "move_automap_x", d |-> dx]
          /\ md' = MoveAutomapX(md, dx)
    /\ ret' = Returned(TRUE)
    /\ UNCHANGED <<wadVars, levelVars, accepted, game>>

MoveAutomapYCall ==
    /\ \E dy \in MoveTimes :
          /\ call' = [fn |-> "move_automap_y", d |-> dy]
          /\ md' = MoveAutomapY(md, dy)
    /\ ret' = Returned(TRUE)
    /\ UNCHANGED <<wadVars, levelVars, accepted, game>>

ZoomAutomapCall ==
    /\ \E dz \in ZoomSteps :
          /\ call' = [fn |-> "zoom_automap", d |-> dz]
          /\ md' = ZoomAutomap(md, dz)
    /\ ret' = Returned(TRUE)
    /\ UNCHANGED <<wadVars, levelVars, accepted, game>>

NextAutomap == MoveAutomapXCall \/ MoveAutomapYCall \/ ZoomAutomapCall

SpecAutomap == InitAutomap /\ [][NextAutomap]_vars

\* the two axes of the automap: the function that moves along an axis, and the
\* centre, the accumulator and the bounds of a level on it
Axes == {"x", "y"}
MoveFn(a) == IF a = "x" THEN "move_automap_x" ELSE "move_automap_y"
Centre(level, a) == IF a = "x" THEN level.amap_center.x ELSE level.amap_center.y
Accum(level, a) == IF a = "x" THEN level.amap_cx ELSE level.amap_cy
Lo(level, a) == IF a = "x" THEN level.map_data.bound_min.x ELSE level.map_data.bound_min.y
Hi(level, a) == IF a = "x" THEN level.map_data.bound_max.x ELSE level.map_data.bound_max.y

\* this step is a move along the axis
MoveStep(a) == call'.fn = MoveFn(a)

\* this step is a move along the axis that is clamped
ClampedStep(a) ==
    /\ MoveStep(a)
    /\ LET val == AsI32(Accum(md, a) + MoveBy(call'.d)) IN val < Lo(md, a) \/ val > Hi(md, a)

\* the last call moved along the axis up to a bound of the box, where it left
\* the accumulator, and this step moves along the axis in the opposite direction
TurnsBack(a) ==
    /\ call # NotCalled
    /\ call.fn = MoveFn(a)
    /\ MoveStep(a)
    /\ \/ call.d > 0 /\ Accum(md, a) = AsF64(Hi(md, a)) /\ call'.d < 0
       \/ call.d < 0 /\ Accum(md, a) = AsF64(Lo(md, a)) /\ call'.d > 0

\* the centre lies in the box once it was moved, and the zoom within its limits
CentreAndZoomSteps ==
    /\ \A a \in Axes :
          /\ MoveStep(a) => Centre(md', a) \in Lo(md, a)..Hi(md, a)
          /\ ~MoveStep(a) => Centre(md', a) = Centre(md, a)
          /\ ClampedStep(a) => /\ Accum(md', a) = AsF64(Centre(md', a))
                               /\ Centre(md', a) \in {Lo(md, a), Hi(md, a)}
    /\ md'.map_data = md.map_data
    /\ md'.amap_zoom \in AUTOMAP_ZOOM_MIN..AUTOMAP_ZOOM_MAX

\* the claim as it is stated: a move back from the bound changes the centre
C30_AsStated ==
    [][/\ CentreAndZoomSteps
       /\ \A a \in Axes : TurnsBack(a) => Centre(md', a) # Centre(md, a)]_vars

\* C30: once move_automap_x was called the centre's x lies in [min_x, max_x] of
\* the bounding box (likewise y), the zoom lies in [0.1, 0.8], and a clamped
\* move resets the accumulator to the clamped value, so that a following move in
\* the opposite direction starts from the bound: it changes the centre at once
\* when the box is not flat on that axis and the move is of a map unit or more,
\* or leads towards zero.
C30_AutomapClamped ==
    /\ md.amap_zoom \in AUTOMAP_ZOOM_MIN..AUTOMAP_ZOOM_MAX
    /\ [][/\ CentreAndZoomSteps
          /\ \A a \in Axes :
                TurnsBack(a) =>
                   /\ Centre(md', a) =
                         ClampValue(AsI32(AsF64(Centre(md, a)) + MoveBy(call'.d)),
                                    Lo(md, a), Hi(md, a))[1]
                   /\ (/\ Lo(md, a) < Hi(md, a)
                       /\ \/ Abs(MoveBy(call'.d)) >= AccumPerUnit
                          \/ call'.d < 0 /\ Centre(md, a) > 0
                          \/ call'.d > 0 /\ Centre(md, a) < 0)
                      => Centre(md', a) # Centre(md, a)]_vars

\* a move along x was clamped at the upper bound, where the accumulator now is
C30_Witness ==
    /\ call # NotCalled
    /\ call.fn = "move_automap_x"
    /\ call.d > 0
    /\ md.amap_center.x = md.map_data.bound_max.x
    /\ md.amap_cx = AsF64(md.map_data.bound_max.x)
    /\ md.map_data.bound_min.x < md.map_data.bound_max.x
    /\ md.amap_zoom = AUTOMAP_ZOOM_MAX

====
